---- MODULE Spec2Model ----
(***************************************************************************)
(* ORION import reconciliation pipeline: the resumable batch loaders, the  *)
(* clear-and-reload importer with its safety gate, the radar              *)
(* deduplicator / cross-source matcher of create-unified-dataset, the      *)
(* cluster label resolver, the record a loader builds of a source row and *)
(* the cluster a loader assigns to it, the final verification of the      *)
(* correcting loaders and the two radar importers.                         *)
(*                                                                         *)
(* The store is a relational database reached through one connection:     *)
(* db is the committed state, sess is what the open transaction of the     *)
(* running script sees.  commit copies sess to db, rollback (and the loss  *)
(* of the connection) copies db to sess.                                   *)
(*                                                                         *)
(* Row counts are scaled down: the batch sizes, the per-run batch caps,    *)
(* the commit period of complete_import and the expected total of 29,749   *)
(* are small numbers that keep their order relations (several batches per  *)
(* run, several runs per import, a source that can be shorter or longer    *)
(* than the expected total).                                               *)
(***************************************************************************)
EXTENDS Integers, Sequences, FiniteSets, TLC

VARIABLES
    loader,      \* the script this behaviour runs (fixed per behaviour)
    df,          \* the source file: sequence of ID values, one per row
    db,          \* committed tables of the store
    sess,        \* tables as seen inside the connection's open transaction
    pc,          \* position of the running script
    run,         \* locals of the current (or last) run
    report,      \* what the last run reported when it ended
    attempted,   \* batch indices whose insert this run attempted, in order
    raised,      \* batch indices of this run whose insert raised
    history,     \* whether a batch raised / a run was killed so far
    trace,       \* gate checks and destructive statements of this run, in order
    environ,     \* process environment variables
    args,        \* command line flags and the input files of the script
    db_name,     \* current_database() of the store
    parquet_df,  \* base rows given to the matcher
    radar_csv,   \* rows of the radar annotation file
    radar_df,    \* result of load_radar_csv
    merged_df,   \* result of merge_datasets
    exported     \* the unified dataset files written by export_unified_dataset

vars == <<loader, df, history, db, sess, pc, run, report, attempted, raised, trace,
          environ, args, db_name, parquet_df, radar_csv, radar_df, merged_df,
          exported>>

loaderVars == <<loader, df, history, db, sess, pc, run, report, attempted, raised, trace,
                environ, args, db_name>>
loaderVars_but_pc == <<loader, df, history, db, sess, run, report, attempted,
                       raised, trace, environ, args, db_name>>
mergeVars == <<parquet_df, radar_csv, radar_df, merged_df, exported>>

----------------------------------------------------------------------------
(* Bounds of the model *)

MaxN == 11          \* largest number of source rows

(* Program constants, scaled (see the module header) *)

complete_BATCH_SIZE == 2
complete_COMMIT_FREQUENCY == 3
quick_BATCH_SIZE == 2
quick_COMMIT_FREQUENCY == 2
quick_BATCH_CAP == 3
finish_BATCH_SIZE == 2
finish_MAX_BATCHES == 2
resume_BATCH_SIZE == 2
fix_BATCH_SIZE == 2
signals_batch_size == 2
EXPECTED_TOTAL == 7

None == "None"

\* an empty cell: NaN, or None where a value may be missing
Null == <<>>

----------------------------------------------------------------------------
(* Text: a string is a sequence of one-character strings *)

Min(a, b) == IF a < b THEN a ELSE b

\* str.lower() on the characters the model uses
LowerChar(c) ==
    CASE c = "P" -> "p"
      [] c = "R" -> "r"
      [] c = "O" -> "o"
      [] c = "D" -> "d"
      [] c = "X" -> "x"
      [] c = "Y" -> "y"
      [] c = "Z" -> "z"
      [] OTHER -> c

\* variant: the name is compared as written
LowerIdentity(s) == s

Lower(s) == [i \in 1..Len(s) |-> LowerChar(s[i])]

\* Python's  sub in s
Contains(sub, s) ==
    \E k \in 0..(Len(s) - Len(sub)) :
        \A i \in 1..Len(sub) : s[k + i] = sub[i]

\* decimal digits of a natural number, as str(n) writes them
RECURSIVE Digits(_)
Digits(n) == IF n < 10 THEN <<n>> ELSE Append(Digits(n \div 10), n % 10)

\* a < b in the character-by-character order of text
LexLess(a, b) ==
    \E k \in 0..Min(Len(a), Len(b)) :
        /\ \A i \in 1..k : a[i] = b[i]
        /\ \/ (k = Len(a) /\ k < Len(b))
           \/ (k < Len(a) /\ k < Len(b) /\ a[k + 1] < b[k + 1])

----------------------------------------------------------------------------
(* The driving_forces table: a sequence of rows in insertion order.  A row *)
(* id is the text prefix ("force-", "signal_", "unified_") followed by the *)
(* decimal digits of num.  cluster_id is empty unless a loader resolved   *)
(* one; legacy_cluster is the label the loader read for the row.           *)

Row(prefix, num, project_id) ==
    [prefix |-> prefix, num |-> num, project_id |-> project_id,
     cluster_id |-> <<>>, legacy_cluster |-> <<>>]

RowId(r) == <<r.prefix, r.num>>

IdsOf(table) == {RowId(table[i]) : i \in 1..Len(table)}

HasId(table, id) == \E i \in 1..Len(table) : RowId(table[i]) = id

\* the first characters of the three prefixes are f < s < u
PrefixRank(prefix) ==
    CASE prefix = "force-" -> 1
      [] prefix = "signal_" -> 2
      [] OTHER -> 3

\* id text order, as ORDER BY id compares the id column
IdTextLess(r1, r2) ==
    \/ PrefixRank(r1.prefix) < PrefixRank(r2.prefix)
    \/ /\ r1.prefix = r2.prefix
       /\ LexLess(Digits(r1.num), Digits(r2.num))

\* variant: ON CONFLICT (id) DO UPDATE, the stored row takes the new values
RECURSIVE InsertOverwrite(_, _)
InsertOverwrite(table, rows) ==
    IF rows = <<>> THEN table
    ELSE InsertOverwrite(
             IF \E i \in 1..Len(table) :
                    <<table[i].prefix, table[i].num>>
                        = <<Head(rows).prefix, Head(rows).num>>
             THEN [i \in 1..Len(table) |->
                      IF <<table[i].prefix, table[i].num>>
                             = <<Head(rows).prefix, Head(rows).num>>
                      THEN Head(rows) ELSE table[i]]
             ELSE Append(table, Head(rows)),
             Tail(rows))

\* INSERT ... ON CONFLICT (id) DO NOTHING of a list of rows
RECURSIVE InsertIgnoreConflict(_, _)
InsertIgnoreConflict(table, rows) ==
    IF rows = <<>> THEN table
    ELSE InsertIgnoreConflict(
             IF HasId(table, RowId(Head(rows))) THEN table
             ELSE Append(table, Head(rows)),
             Tail(rows))

\* SELECT id FROM projects WHERE is_default = true; fetchone()
DefaultProject(projects) ==
    IF \E p \in projects : p.is_default
    THEN (CHOOSE p \in projects : p.is_default).id
    ELSE None

\* len(range(0, n, size)): number of batches that cover n rows
BatchCount(n, size) == (n + size - 1) \div size

\* rows batch b (0-based) of a run covers: positions of to_import
BatchOf(to_import, b, size) ==
    SubSeq(to_import, b * size + 1, Min((b + 1) * size, Len(to_import)))

\* df.iloc[start_index:] as the list of row positions (1-based) it keeps
Remaining(start_index) ==
    [i \in 1..(IF Len(df) > start_index THEN Len(df) - start_index ELSE 0)
        |-> start_index + i]

LoaderBatchSize ==
    CASE loader = "complete_import" -> complete_BATCH_SIZE
      [] loader = "finish_import" -> finish_BATCH_SIZE
      [] loader = "quick_complete" -> quick_BATCH_SIZE
      [] loader = "resume_correct_import" -> resume_BATCH_SIZE
      [] loader = "fix_correct_import" -> fix_BATCH_SIZE
      [] OTHER -> signals_batch_size

\* labels[i] behind the length test of the loaders, i counted from 0
LabelAt(labels, i) == IF i < Len(labels) THEN <<labels[i + 1]>> ELSE Null

\* variant: the label is read at the offset in the remaining rows
legacy_cluster_at_offset(offset, position) ==
    LabelAt(args.cluster_labels, offset)

\* legacy_cluster of the row at the given offset (from 0) in the rows the
\* run imports, which is the row at the given position (from 1) of df:
\* complete_import indexes the labels sliced at start_index, finish_import
\* and quick_complete index at global_idx, resume_correct_import at
\* original_idx, fix_correct_import at batch_start + df_idx
legacy_cluster(offset, position) ==
    CASE loader = "complete_import" ->
             LabelAt(SubSeq(args.cluster_labels, run.start_index + 1,
                            Len(args.cluster_labels)), offset)
      [] loader \in {"finish_import", "quick_complete"} ->
             LabelAt(args.cluster_labels, run.start_index + offset)
      [] loader = "resume_correct_import" ->
             LabelAt(args.cluster_labels, position - 1)
      [] OTHER -> LabelAt(args.cluster_labels, offset)

\* the elements of a set of small integers in the order set() yields them
RECURSIVE SetOrder(_)
SetOrder(S) ==
    IF S = {} THEN <<>>
    ELSE LET m == CHOOSE x \in S : \A y \in S : x <= y
         IN <<m>> \o SetOrder(S \ {m})

\* cluster_mapping of the run.  complete_import selects the cluster ids
\* with no ORDER BY and gets them in table order; the other loaders
\* select them ORDER BY id.
cluster_mapping ==
    LET cluster_rows == [k \in 1..Len(sess.clusters) |-> sess.clusters[k].id]
        ordered == SetOrder({cluster_rows[k] : k \in 1..Len(cluster_rows)})
    IN IF loader = "complete_import"
       THEN LET remaining == SubSeq(args.cluster_labels, run.start_index + 1,
                                    Len(args.cluster_labels))
                keys == SetOrder({remaining[k] : k \in 1..Len(remaining)})
            IN [c \in {keys[i] : i \in 1..Min(Len(keys), Len(cluster_rows))} |->
                   cluster_rows[CHOOSE i \in 1..Len(keys) : keys[i] = c]]
       ELSE [i \in 0..(Len(ordered) - 1) |-> ordered[i + 1]]

\* cluster_mapping.get(legacy_cluster), None when no label was read
ClusterIdOf(cell) ==
    IF cell # Null /\ cell[1] \in DOMAIN cluster_mapping
    THEN <<cluster_mapping[cell[1]]>> ELSE Null

\* the records a legacy loader builds for a batch of row positions;
\* legacy_cluster is the label read for the row, kept with the record
ForceRecords(positions, project_id) ==
    [i \in 1..Len(positions) |->
        LET cell == legacy_cluster(run.batch_idx * LoaderBatchSize + (i - 1),
                                   positions[i])
        IN [prefix |-> "force-", num |-> df[positions[i]],
            project_id |-> project_id,
            cluster_id |-> ClusterIdOf(cell), legacy_cluster |-> cell]]

NewRun(start_index, to_import, project_id) ==
    [start_index |-> start_index, to_import |-> to_import,
     project_id |-> project_id, batch_idx |-> 0, batch_count |-> 0,
     imported |-> 0]

Commit(s) == s

\* variant: the rows of the open transaction survive
KeepSession(d) == sess

Rollback(d) == d

\* a row of the clusters table
ClusterRow(id, label, force_ids) ==
    [id |-> id, label |-> label, force_ids |-> force_ids]

----------------------------------------------------------------------------
(* complete_import.py *)

\* get_import_status: SELECT id FROM driving_forces ORDER BY id DESC LIMIT 1
\* (of a table that has a row)
LastImportedId(table) ==
    LET i == CHOOSE i \in 1..Len(table) :
                 \A j \in 1..Len(table) : ~IdTextLess(table[i], table[j])
    IN table[i]

\* resume_import, "Determine starting point"
CompleteStartIndex(table) ==
    IF table # <<>> /\ LastImportedId(table).prefix = "force-"
    THEN (LastImportedId(table).num - 1) + 1
    ELSE Len(table)

complete_import_start ==
    /\ loader = "complete_import" /\ pc = "idle"
    /\ LET project_id == DefaultProject(sess.projects)
           start_index == CompleteStartIndex(sess.driving_forces)
           remaining == Remaining(start_index)
       IN /\ run' = NewRun(start_index, remaining, project_id)
          /\ IF project_id = None
             THEN pc' = "idle" /\ report' = "no_project"
             ELSE IF Len(remaining) = 0
             THEN pc' = "idle" /\ report' = "already_complete"
             ELSE pc' = "loop" /\ report' = "running"
    /\ attempted' = <<>> /\ raised' = {} /\ trace' = <<>>
    /\ UNCHANGED <<loader, df, history, db, sess, environ, args, db_name, mergeVars>>

complete_import_batch ==
    /\ loader = "complete_import" /\ pc = "loop"
    /\ run.batch_idx < BatchCount(Len(run.to_import), complete_BATCH_SIZE)
    /\ LET batch == BatchOf(run.to_import, run.batch_idx, complete_BATCH_SIZE)
           inserted == [sess EXCEPT !.driving_forces =
                           InsertIgnoreConflict(@, ForceRecords(batch, run.project_id))]
       IN /\ sess' = inserted
          /\ db' = IF (run.batch_idx + 1) % complete_COMMIT_FREQUENCY = 0
                   THEN Commit(inserted) ELSE db
          /\ run' = [run EXCEPT !.batch_idx = @ + 1,
                                !.imported = @ + Len(batch)]
    /\ attempted' = Append(attempted, run.batch_idx)
    /\ UNCHANGED <<loader, df, history, pc, report, raised, trace, environ, args,
                   db_name, mergeVars>>

complete_import_batch_error ==
    /\ loader = "complete_import" /\ pc = "loop"
    /\ run.batch_idx < BatchCount(Len(run.to_import), complete_BATCH_SIZE)
    /\ sess' = Rollback(db)
    /\ run' = [run EXCEPT !.batch_idx = @ + 1]
    /\ attempted' = Append(attempted, run.batch_idx)
    /\ raised' = raised \cup {run.batch_idx}
    /\ history' = [history EXCEPT !.errors = TRUE]
    /\ UNCHANGED <<loader, df, db, pc, report, trace, environ, args, db_name,
                   mergeVars>>

complete_import_finish ==
    /\ loader = "complete_import" /\ pc = "loop"
    /\ run.batch_idx = BatchCount(Len(run.to_import), complete_BATCH_SIZE)
    /\ db' = Commit(sess)
    /\ pc' = "idle" /\ report' = "session_done"
    /\ UNCHANGED <<loader, df, history, sess, run, attempted, raised, trace, environ,
                   args, db_name, mergeVars>>

----------------------------------------------------------------------------
(* finish_import.py *)

\* SELECT id ... WHERE id LIKE 'force-%'
\*   ORDER BY CAST(SUBSTRING(id FROM 7) AS INTEGER) DESC LIMIT 1
ForceNums(table) ==
    {table[i].num : i \in {j \in 1..Len(table) : table[j].prefix = "force-"}}

MaxForceNum(table) ==
    IF ForceNums(table) = {} THEN 0
    ELSE CHOOSE n \in ForceNums(table) : \A m \in ForceNums(table) : m <= n

finish_import_start ==
    /\ loader = "finish_import" /\ pc = "idle"
    /\ LET current_count == Len(sess.driving_forces)
           project_id == DefaultProject(sess.projects)
           start_index == MaxForceNum(sess.driving_forces)
           remaining == Remaining(start_index)
       IN IF current_count >= EXPECTED_TOTAL
          THEN /\ run' = NewRun(0, <<>>, project_id)
               /\ pc' = "idle" /\ report' = "already_complete"
          ELSE /\ run' = NewRun(start_index, remaining, project_id)
               /\ IF Len(remaining) = 0
                  THEN pc' = "idle" /\ report' = "already_complete"
                  ELSE pc' = "loop" /\ report' = "running"
    /\ attempted' = <<>> /\ raised' = {} /\ trace' = <<>>
    /\ UNCHANGED <<loader, df, history, db, sess, environ, args, db_name, mergeVars>>

finish_import_batch ==
    /\ loader = "finish_import" /\ pc = "loop"
    /\ run.batch_idx < BatchCount(Len(run.to_import), finish_BATCH_SIZE)
    /\ run.batch_count < finish_MAX_BATCHES
    /\ LET batch == BatchOf(run.to_import, run.batch_idx, finish_BATCH_SIZE)
           inserted == [sess EXCEPT !.driving_forces =
                           InsertIgnoreConflict(@, ForceRecords(batch, run.project_id))]
       IN /\ sess' = inserted
          /\ db' = Commit(inserted)
          /\ run' = [run EXCEPT !.batch_idx = @ + 1,
                                !.batch_count = @ + 1,
                                !.imported = @ + Len(batch)]
    /\ attempted' = Append(attempted, run.batch_idx)
    /\ UNCHANGED <<loader, df, history, pc, report, raised, trace, environ, args,
                   db_name, mergeVars>>

finish_import_batch_error ==
    /\ loader = "finish_import" /\ pc = "loop"
    /\ run.batch_idx < BatchCount(Len(run.to_import), finish_BATCH_SIZE)
    /\ run.batch_count < finish_MAX_BATCHES
    /\ sess' = Rollback(db)
    /\ run' = [run EXCEPT !.batch_idx = @ + 1]
    /\ attempted' = Append(attempted, run.batch_idx)
    /\ raised' = raised \cup {run.batch_idx}
    /\ history' = [history EXCEPT !.errors = TRUE]
    /\ UNCHANGED <<loader, df, db, pc, report, trace, environ, args, db_name,
                   mergeVars>>

finish_import_finish ==
    /\ loader = "finish_import" /\ pc = "loop"
    /\ LET total == BatchCount(Len(run.to_import), finish_BATCH_SIZE)
       IN /\ run.batch_idx = total \/ run.batch_count >= finish_MAX_BATCHES
          /\ report' = IF run.batch_idx < total THEN "capped" ELSE "session_done"
    /\ pc' = "idle"
    /\ UNCHANGED <<loader, df, history, db, sess, run, attempted, raised, trace,
                   environ, args, db_name, mergeVars>>

----------------------------------------------------------------------------
(* quick_complete.py *)

quick_resume_import_start ==
    /\ loader = "quick_complete" /\ pc = "idle"
    /\ LET project_id == DefaultProject(sess.projects)
           start_index == MaxForceNum(sess.driving_forces)
           remaining == Remaining(start_index)
       IN /\ run' = NewRun(start_index, remaining, project_id)
          /\ IF Len(remaining) = 0
             THEN pc' = "idle" /\ report' = "already_complete"
             ELSE pc' = "loop" /\ report' = "running"
    /\ attempted' = <<>> /\ raised' = {} /\ trace' = <<>>
    /\ UNCHANGED <<loader, df, history, db, sess, environ, args, db_name, mergeVars>>

quick_resume_import_batch ==
    /\ loader = "quick_complete" /\ pc = "loop"
    /\ run.batch_idx < BatchCount(Len(run.to_import), quick_BATCH_SIZE)
    /\ run.batch_idx < quick_BATCH_CAP
    /\ LET batch == BatchOf(run.to_import, run.batch_idx, quick_BATCH_SIZE)
           inserted == [sess EXCEPT !.driving_forces =
                           InsertIgnoreConflict(@, ForceRecords(batch, run.project_id))]
       IN /\ sess' = inserted
          /\ db' = IF (run.batch_idx + 1) % quick_COMMIT_FREQUENCY = 0
                   THEN Commit(inserted) ELSE db
          /\ run' = [run EXCEPT !.batch_idx = @ + 1,
                                !.imported = @ + Len(batch)]
    /\ attempted' = Append(attempted, run.batch_idx)
    /\ UNCHANGED <<loader, df, history, pc, report, raised, trace, environ, args,
                   db_name, mergeVars>>

quick_resume_import_batch_error ==
    /\ loader = "quick_complete" /\ pc = "loop"
    /\ run.batch_idx < BatchCount(Len(run.to_import), quick_BATCH_SIZE)
    /\ run.batch_idx < quick_BATCH_CAP
    /\ sess' = Rollback(db)
    /\ run' = [run EXCEPT !.batch_idx = @ + 1]
    /\ attempted' = Append(attempted, run.batch_idx)
    /\ raised' = raised \cup {run.batch_idx}
    /\ history' = [history EXCEPT !.errors = TRUE]
    /\ UNCHANGED <<loader, df, db, pc, report, trace, environ, args, db_name,
                   mergeVars>>

quick_resume_import_finish ==
    /\ loader = "quick_complete" /\ pc = "loop"
    /\ LET total == BatchCount(Len(run.to_import), quick_BATCH_SIZE)
       IN /\ run.batch_idx = total \/ run.batch_idx >= quick_BATCH_CAP
          /\ report' = IF run.batch_idx < total THEN "capped" ELSE "session_done"
    /\ db' = Commit(sess)
    /\ pc' = "idle"
    /\ UNCHANGED <<loader, df, history, sess, run, attempted, raised, trace, environ,
                   args, db_name, mergeVars>>

----------------------------------------------------------------------------
(* resume_correct_import.py *)

\* "Prepare records to import (skip already imported)"
RECURSIVE SkipImported(_, _)
SkipImported(positions, imported_ids) ==
    IF positions = <<>> THEN <<>>
    ELSE IF <<"force-", df[Head(positions)]>> \in imported_ids
         THEN SkipImported(Tail(positions), imported_ids)
         ELSE <<Head(positions)>> \o SkipImported(Tail(positions), imported_ids)

\* project_result[0] if project_result else 'legacy-full-dataset'
ProjectOrLegacy(projects) ==
    IF DefaultProject(projects) = None THEN "legacy-full-dataset"
    ELSE DefaultProject(projects)

resume_correct_import_start ==
    /\ loader = "resume_correct_import" /\ pc = "idle"
    /\ LET current_count == Len(sess.driving_forces)
           project_id == ProjectOrLegacy(sess.projects)
           imported_ids == IF current_count > 0
                           THEN {id \in IdsOf(sess.driving_forces) : id[1] = "force-"}
                           ELSE {}
           to_import == SkipImported(Remaining(0), imported_ids)
       IN IF current_count >= EXPECTED_TOTAL
          THEN /\ run' = NewRun(0, <<>>, project_id)
               /\ pc' = "idle" /\ report' = "already_complete"
          ELSE /\ run' = NewRun(0, to_import, project_id)
               /\ IF Len(to_import) = 0
                  THEN pc' = "idle" /\ report' = "already_complete"
                  ELSE pc' = "loop" /\ report' = "running"
    /\ attempted' = <<>> /\ raised' = {} /\ trace' = <<>>
    /\ UNCHANGED <<loader, df, history, db, sess, environ, args, db_name, mergeVars>>

resume_correct_import_batch ==
    /\ loader = "resume_correct_import" /\ pc = "loop"
    /\ run.batch_idx < BatchCount(Len(run.to_import), resume_BATCH_SIZE)
    /\ LET batch == BatchOf(run.to_import, run.batch_idx, resume_BATCH_SIZE)
           inserted == [sess EXCEPT !.driving_forces =
                           InsertIgnoreConflict(@, ForceRecords(batch, run.project_id))]
       IN /\ sess' = inserted
          /\ db' = Commit(inserted)
          /\ run' = [run EXCEPT !.batch_idx = @ + 1,
                                !.imported = @ + Len(batch)]
    /\ attempted' = Append(attempted, run.batch_idx)
    /\ UNCHANGED <<loader, df, history, pc, report, raised, trace, environ, args,
                   db_name, mergeVars>>

resume_correct_import_batch_error ==
    /\ loader = "resume_correct_import" /\ pc = "loop"
    /\ run.batch_idx < BatchCount(Len(run.to_import), resume_BATCH_SIZE)
    /\ sess' = Rollback(db)
    /\ run' = [run EXCEPT !.batch_idx = @ + 1]
    /\ attempted' = Append(attempted, run.batch_idx)
    /\ raised' = raised \cup {run.batch_idx}
    /\ history' = [history EXCEPT !.errors = TRUE]
    /\ UNCHANGED <<loader, df, db, pc, report, trace, environ, args, db_name,
                   mergeVars>>

resume_correct_import_finish ==
    /\ loader = "resume_correct_import" /\ pc = "loop"
    /\ run.batch_idx = BatchCount(Len(run.to_import), resume_BATCH_SIZE)
    /\ pc' = "idle" /\ report' = "session_done"
    /\ UNCHANGED <<loader, df, history, db, sess, run, attempted, raised, trace,
                   environ, args, db_name, mergeVars>>

----------------------------------------------------------------------------
(* fix_correct_import.py *)

\* INSERT without ON CONFLICT: a row whose id is already in the table, or
\* twice in the statement, violates the primary key and the statement raises
InsertRaises(table, rows) ==
    \/ \E i \in 1..Len(rows) : HasId(table, RowId(rows[i]))
    \/ \E i, j \in 1..Len(rows) : i < j /\ RowId(rows[i]) = RowId(rows[j])

fix_correct_import_start ==
    /\ loader = "fix_correct_import" /\ pc = "idle"
    /\ LET cleared == [sess EXCEPT !.driving_forces = <<>>]
       IN /\ trace' = <<"DELETE driving_forces", "COMMIT">>
          /\ sess' = cleared
          /\ db' = Commit(cleared)
          /\ run' = NewRun(0, Remaining(0), ProjectOrLegacy(cleared.projects))
    /\ pc' = "loop" /\ report' = "running"
    /\ attempted' = <<>> /\ raised' = {}
    /\ UNCHANGED <<loader, df, history, environ, args, db_name, mergeVars>>

fix_correct_import_batch ==
    /\ loader = "fix_correct_import" /\ pc = "loop"
    /\ run.batch_idx < BatchCount(Len(run.to_import), fix_BATCH_SIZE)
    /\ LET batch == BatchOf(run.to_import, run.batch_idx, fix_BATCH_SIZE)
           records == ForceRecords(batch, run.project_id)
           inserted == [sess EXCEPT !.driving_forces = @ \o records]
       IN /\ ~InsertRaises(sess.driving_forces, records)
          /\ sess' = inserted
          /\ db' = Commit(inserted)
          /\ run' = [run EXCEPT !.batch_idx = @ + 1,
                                !.imported = @ + Len(batch)]
    /\ attempted' = Append(attempted, run.batch_idx)
    /\ UNCHANGED <<loader, df, history, pc, report, raised, trace, environ, args,
                   db_name, mergeVars>>

fix_correct_import_batch_error ==
    /\ loader = "fix_correct_import" /\ pc = "loop"
    /\ run.batch_idx < BatchCount(Len(run.to_import), fix_BATCH_SIZE)
    /\ sess' = Rollback(db)
    /\ run' = [run EXCEPT !.batch_idx = @ + 1]
    /\ attempted' = Append(attempted, run.batch_idx)
    /\ raised' = raised \cup {run.batch_idx}
    /\ history' = [history EXCEPT !.errors = TRUE]
    /\ UNCHANGED <<loader, df, db, pc, report, trace, environ, args, db_name,
                   mergeVars>>

fix_correct_import_finish ==
    /\ loader = "fix_correct_import" /\ pc = "loop"
    /\ run.batch_idx = BatchCount(Len(run.to_import), fix_BATCH_SIZE)
    /\ pc' = "idle" /\ report' = "session_done"
    /\ UNCHANGED <<loader, df, history, db, sess, run, attempted, raised, trace,
                   environ, args, db_name, mergeVars>>

----------------------------------------------------------------------------
(* import-signals-dataset.py *)

\* variant: only the empty string counts as not set
EnvSetNotEmpty(value) == value # ""

\* truth value of os.getenv(name) / os.environ.get(name)
EnvSet(value) == value # "unset" /\ value # ""

\* validate_environment
validate_environment == EnvSet(environ.ORION_SIGNALS_IMPORT_ALLOW)

\* name LIKE '%Signals%' OR name LIKE '%Signal%'
NameLikeSignal(name) == name \in {"Signals Dataset"}

NewSignalsProject ==
    [id |-> "uuid-signals", name |-> "Signals Dataset", is_default |-> FALSE]

SignalRecords(positions, project_id) ==
    [i \in 1..Len(positions) |-> Row("signal_", df[positions[i]], project_id)]

import_signals_start ==
    /\ loader = "import_signals" /\ pc = "idle"
    /\ attempted' = <<>> /\ raised' = {} /\ trace' = <<>>
    /\ IF ~args.dry_run /\ ~validate_environment
       THEN /\ pc' = "idle" /\ report' = "refused"
            /\ UNCHANGED <<db, sess, run>>
       ELSE IF args.file = "missing"
       THEN /\ pc' = "idle" /\ report' = "file_missing"
            /\ UNCHANGED <<db, sess, run>>
       ELSE LET like == {p \in sess.projects : NameLikeSignal(p.name)}
                created == like = {} /\ sess.projects = {}
                project_id ==
                    IF like # {} THEN (CHOOSE p \in like : TRUE).id
                    ELSE IF sess.projects # {}
                    THEN (CHOOSE p \in sess.projects : TRUE).id
                    ELSE NewSignalsProject.id
                withProject ==
                    IF created
                    THEN [sess EXCEPT !.projects = @ \cup {NewSignalsProject}]
                    ELSE sess
                nrows == IF args.dry_run
                         THEN Min(Len(df), signals_batch_size * 3)
                         ELSE Len(df)
            IN /\ sess' = withProject
               /\ db' = IF created /\ ~args.dry_run THEN Commit(withProject) ELSE db
               /\ run' = NewRun(0, [i \in 1..nrows |-> i], project_id)
               /\ pc' = "loop" /\ report' = "running"
    /\ UNCHANGED <<loader, df, history, environ, args, db_name, mergeVars>>

import_signals_chunk ==
    /\ loader = "import_signals" /\ pc = "loop"
    /\ run.batch_idx < BatchCount(Len(run.to_import), signals_batch_size)
    /\ LET chunk == BatchOf(run.to_import, run.batch_idx, signals_batch_size)
           inserted == [sess EXCEPT !.driving_forces =
                           InsertIgnoreConflict(@, SignalRecords(chunk, run.project_id))]
       IN /\ run' = [run EXCEPT !.batch_idx = @ + 1,
                                !.imported = @ + Len(chunk)]
          /\ IF args.dry_run
             THEN UNCHANGED <<db, sess, attempted>>
             ELSE /\ sess' = inserted
                  /\ db' = Commit(inserted)
                  /\ attempted' = Append(attempted, run.batch_idx)
    /\ UNCHANGED <<loader, df, history, pc, report, raised, trace, environ, args,
                   db_name, mergeVars>>

\* an exception anywhere in the loop reaches the except of the whole function
import_signals_chunk_error ==
    /\ loader = "import_signals" /\ pc = "loop"
    /\ ~args.dry_run
    /\ run.batch_idx < BatchCount(Len(run.to_import), signals_batch_size)
    /\ sess' = Rollback(db)
    /\ attempted' = Append(attempted, run.batch_idx)
    /\ raised' = raised \cup {run.batch_idx}
    /\ pc' = "idle" /\ report' = "aborted"
    /\ history' = [history EXCEPT !.errors = TRUE]
    /\ UNCHANGED <<loader, df, db, run, trace, environ, args, db_name,
                   mergeVars>>

import_signals_finish ==
    /\ loader = "import_signals" /\ pc = "loop"
    /\ run.batch_idx = BatchCount(Len(run.to_import), signals_batch_size)
    /\ sess' = Rollback(db)
    /\ pc' = "idle" /\ report' = "success"
    /\ UNCHANGED <<loader, df, history, db, run, attempted, raised, trace, environ,
                   args, db_name, mergeVars>>

----------------------------------------------------------------------------
(* import-unified-dataset.py *)

\* 'prod' in db_name.lower() or 'production' in db_name.lower()
IsProduction(name) ==
    \/ Contains(<<"p", "r", "o", "d">>, Lower(name))
    \/ Contains(<<"p", "r", "o", "d", "u", "c", "t", "i", "o", "n">>, Lower(name))

\* name NOT LIKE '%Processing%'
NameLikeProcessing(name) == name \in {"Processing"}

UnifiedProject ==
    [id |-> "uuid-unified", name |-> "Unified Dataset", is_default |-> TRUE]

ClearStatements ==
    <<"DELETE reports", "DELETE workspaces", "DELETE clustering_reports",
      "DELETE saved_searches", "DELETE driving_forces", "DELETE clusters",
      "DELETE projects", "INSERT projects">>

\* the tables after the statements of clear_existing_data
Cleared(tables) ==
    [driving_forces |-> <<>>,
     projects |-> {p \in tables.projects : NameLikeProcessing(p.name)}
                      \cup {UnifiedProject},
     clusters |-> <<>>, reports |-> 0, workspaces |-> 0,
     clustering_reports |-> 0, saved_searches |-> 0]

\* main, "Safety check for destructive operations"
unified_main_gate ==
    /\ loader = "import_unified_dataset" /\ pc = "idle"
    /\ trace' = <<>>
    /\ run' = NewRun(0, <<>>, None)
    /\ IF ~args.keep_existing /\ ~args.dry_run
          /\ ~EnvSet(environ.ORION_IMPORT_ALLOW)
       THEN pc' = "idle" /\ report' = "exit 1"
       ELSE pc' = "connect" /\ report' = "running"
    /\ UNCHANGED <<loader, df, history, db, sess, attempted, raised, environ,
                   args, db_name, mergeVars>>

connect_to_db ==
    /\ loader = "import_unified_dataset" /\ pc = "connect"
    /\ IF ~EnvSet(environ.DATABASE_URL)
       THEN pc' = "idle" /\ report' = "exit 1"
       ELSE /\ pc' = IF args.keep_existing THEN "project" ELSE "clear"
            /\ UNCHANGED report
    /\ UNCHANGED <<loader, df, history, db, sess, run, attempted, raised,
                   trace, environ, args, db_name, mergeVars>>

clear_existing_data ==
    /\ loader = "import_unified_dataset" /\ pc = "clear"
    /\ IF args.dry_run
       THEN /\ run' = [run EXCEPT !.project_id = "dry-run-project-id"]
            /\ pc' = "load"
            /\ UNCHANGED <<db, sess, trace, report>>
       ELSE IF ~EnvSet(environ.ORION_IMPORT_ALLOW)
       THEN /\ pc' = "idle" /\ report' = "exit 1"
            /\ UNCHANGED <<db, sess, trace, run>>
       ELSE IF IsProduction(db_name)
       THEN /\ trace' = Append(trace, "ORION_IMPORT_ALLOW set")
            /\ pc' = "idle" /\ report' = "exit 1"
            /\ UNCHANGED <<db, sess, run>>
       ELSE /\ trace' = trace \o <<"ORION_IMPORT_ALLOW set", "not production">>
                          \o ClearStatements \o <<"COMMIT">>
            /\ sess' = Cleared(sess)
            /\ db' = Commit(Cleared(sess))
            /\ run' = [run EXCEPT !.project_id = UnifiedProject.id]
            /\ pc' = "load"
            /\ UNCHANGED report
    /\ UNCHANGED <<loader, df, history, attempted, raised, environ, args,
                   db_name, mergeVars>>

\* a statement of clear_existing_data raises: main's except ends the run
\* before the commit
clear_existing_data_error ==
    /\ loader = "import_unified_dataset" /\ pc = "clear"
    /\ ~args.dry_run /\ EnvSet(environ.ORION_IMPORT_ALLOW)
    /\ ~IsProduction(db_name)
    /\ \E k \in 1..Len(ClearStatements) :
          trace' = trace \o <<"ORION_IMPORT_ALLOW set", "not production">>
                         \o SubSeq(ClearStatements, 1, k)
    /\ sess' = Rollback(db)
    /\ pc' = "idle" /\ report' = "exit 1"
    /\ history' = [history EXCEPT !.errors = TRUE]
    /\ UNCHANGED <<loader, df, db, run, attempted, raised, environ, args,
                   db_name, mergeVars>>

\* main, --keep-existing: "Get or create default project"
keep_existing_project ==
    /\ loader = "import_unified_dataset" /\ pc = "project"
    /\ IF DefaultProject(sess.projects) # None
       THEN /\ run' = [run EXCEPT !.project_id = DefaultProject(sess.projects)]
            /\ UNCHANGED <<db, sess>>
       ELSE LET created == [sess EXCEPT !.projects = @ \cup {UnifiedProject}]
            IN /\ sess' = created
               /\ db' = Commit(created)
               /\ run' = [run EXCEPT !.project_id = UnifiedProject.id]
    /\ pc' = "load"
    /\ UNCHANGED <<loader, df, history, report, attempted, raised, trace,
                   environ, args, db_name, mergeVars>>

\* load_unified_dataset and validate_dataset
load_unified_dataset ==
    /\ loader = "import_unified_dataset" /\ pc = "load"
    /\ IF args.file # "ok"
       THEN /\ pc' = "idle" /\ report' = "exit 1"
            /\ sess' = Rollback(db)
       ELSE /\ pc' = "import"
            /\ UNCHANGED <<report, sess>>
    /\ UNCHANGED <<loader, df, history, db, run, attempted, raised, trace,
                   environ, args, db_name, mergeVars>>

\* id f"unified_{idx + 1}" of the row at each position of the file
UnifiedRecords(project_id) ==
    [i \in 1..Len(df) |-> Row("unified_", (i - 1) + 1, project_id)]

import_driving_forces ==
    /\ loader = "import_unified_dataset" /\ pc = "import"
    /\ IF args.dry_run
       THEN /\ report' = "success"
            /\ UNCHANGED <<db, sess>>
       ELSE LET records == UnifiedRecords(run.project_id)
                inserted == [sess EXCEPT !.driving_forces = @ \o records]
            IN IF InsertRaises(sess.driving_forces, records)
               THEN /\ report' = "exit 1"
                    /\ sess' = Rollback(db)
                    /\ UNCHANGED db
               ELSE /\ report' = "success"
                    /\ sess' = inserted
                    /\ db' = Commit(inserted)
    /\ pc' = "idle"
    /\ UNCHANGED <<loader, df, history, run, attempted, raised, trace,
                   environ, args, db_name, mergeVars>>

\* the INSERT of import_driving_forces raises for another reason
import_driving_forces_error ==
    /\ loader = "import_unified_dataset" /\ pc = "import"
    /\ ~args.dry_run
    /\ sess' = Rollback(db)
    /\ pc' = "idle" /\ report' = "exit 1"
    /\ history' = [history EXCEPT !.errors = TRUE]
    /\ UNCHANGED <<loader, df, db, run, attempted, raised, trace, environ,
                   args, db_name, mergeVars>>

----------------------------------------------------------------------------
(* create-unified-dataset.py *)
(* A cell of a data frame is Null (NaN / None) or <<value>>.  A numeric   *)
(* cell of the radar file as read is empty, text that is a number, or     *)
(* text that is no number.                                                *)

RECURSIVE LStrip(_)
LStrip(s) == IF s # <<>> /\ Head(s) = " " THEN LStrip(Tail(s)) ELSE s

RECURSIVE RStrip(_)
RStrip(s) ==
    IF s # <<>> /\ s[Len(s)] = " " THEN RStrip(SubSeq(s, 1, Len(s) - 1)) ELSE s

\* str.strip()
Strip(s) == RStrip(LStrip(s))

normalize_title(title) ==
    IF title = Null THEN <<>> ELSE Lower(Strip(title[1]))

\* pd.to_numeric(..., errors='coerce')
to_numeric(raw) == IF raw.kind = "number" THEN <<raw.num>> ELSE Null

\* df['driving_force'].notna() & (df['driving_force'].str.strip() != '')
ValidTitle(cell) == cell # Null /\ Strip(cell[1]) # <<>>

CleanRow(r) ==
    [title_normalized |-> normalize_title(r.driving_force),
     driving_force |-> r.driving_force,
     dimension |-> r.dimension,
     magnitude |-> to_numeric(r.magnitude),
     distance |-> to_numeric(r.distance),
     color_hex |-> r.color_hex]

\* load_radar_csv, "Clean up the data" to "Clean radar columns"
CleanRadar(rows) ==
    LET valid == SelectSeq(rows, LAMBDA r : ValidTitle(r.driving_force))
    IN [i \in 1..Len(valid) |-> CleanRow(valid[i])]

\* (duplicates > 1).sum() > 0
HasDuplicates(rows) ==
    \E i, j \in 1..Len(rows) :
        i < j /\ rows[i].title_normalized = rows[j].title_normalized

CharCode(c) ==
    CASE c = " " -> 32
      [] c = "x" -> 120
      [] c = "y" -> 121
      [] c = "z" -> 122
      [] OTHER -> 0

TextLess(a, b) ==
    LexLess([i \in 1..Len(a) |-> CharCode(a[i])],
            [i \in 1..Len(b) |-> CharCode(b[i])])

\* notna().astype(int)
NotNa(cell) == IF cell # Null THEN 1 ELSE 0

\* row a comes strictly before row b in sort_values by title_normalized
\* ascending, has_dimension, has_magnitude and magnitude descending (NaN last)
SortsBefore(a, b) ==
    \/ TextLess(a.title_normalized, b.title_normalized)
    \/ /\ a.title_normalized = b.title_normalized
       /\ \/ NotNa(a.dimension) > NotNa(b.dimension)
          \/ /\ NotNa(a.dimension) = NotNa(b.dimension)
             /\ \/ NotNa(a.magnitude) > NotNa(b.magnitude)
                \/ /\ a.magnitude # Null /\ b.magnitude # Null
                   /\ a.magnitude[1] > b.magnitude[1]

RECURSIVE InsertSorted(_, _)
InsertSorted(sorted, r) ==
    IF sorted = <<>> THEN <<r>>
    ELSE IF SortsBefore(r, Head(sorted)) THEN <<r>> \o sorted
    ELSE <<Head(sorted)>> \o InsertSorted(Tail(sorted), r)

\* DataFrame.sort_values on several columns: rows that tie keep their order
RECURSIVE sort_values(_)
sort_values(rows) ==
    IF rows = <<>> THEN <<>>
    ELSE InsertSorted(sort_values(SubSeq(rows, 1, Len(rows) - 1)), rows[Len(rows)])

\* GroupBy.first() of one column: the first entry of the group that is not null
FirstNotNull(cells) ==
    IF \A i \in 1..Len(cells) : cells[i] = Null THEN Null
    ELSE cells[CHOOSE i \in 1..Len(cells) :
                   cells[i] # Null /\ \A j \in 1..(i - 1) : cells[j] = Null]

\* variant: the groups are formed on the title as written in the file
GroupKeyRaw(r) == r.driving_force

\* .groupby('title_normalized')
GroupKey(r) == r.title_normalized

\* variant: the group's last row is returned
LastOfGroup(group) == group[Len(group)]

FirstOfGroup(group) ==
    [title_normalized |-> group[1].title_normalized,
     driving_force |-> FirstNotNull([i \in 1..Len(group) |-> group[i].driving_force]),
     dimension |-> FirstNotNull([i \in 1..Len(group) |-> group[i].dimension]),
     magnitude |-> FirstNotNull([i \in 1..Len(group) |-> group[i].magnitude]),
     distance |-> FirstNotNull([i \in 1..Len(group) |-> group[i].distance]),
     color_hex |-> FirstNotNull([i \in 1..Len(group) |-> group[i].color_hex])]

\* .groupby(...).first().reset_index() of rows sorted on the group key
RECURSIVE groupby_first(_)
groupby_first(rows) ==
    IF rows = <<>> THEN <<>>
    ELSE LET key == GroupKey(Head(rows))
             group == SelectSeq(rows, LAMBDA r : GroupKey(r) = key)
             rest == SelectSeq(rows, LAMBDA r : GroupKey(r) # key)
         IN <<FirstOfGroup(group)>> \o groupby_first(rest)

\* variant: the radar rows are returned as cleaned
KeepAllRows(rows) == rows

\* load_radar_csv, "Deduplicate radar data to ensure 1:1 mapping"
DeduplicateRadar(rows) ==
    IF HasDuplicates(rows) THEN groupby_first(sort_values(rows)) ELSE rows

load_parquet_data ==
    /\ loader = "create_unified_dataset" /\ pc = "load_parquet"
    /\ parquet_df' = [i \in 1..Len(parquet_df) |->
                         [ID |-> parquet_df[i].ID, Title |-> parquet_df[i].Title,
                          title_normalized |-> normalize_title(parquet_df[i].Title)]]
    /\ pc' = "load_radar"
    /\ UNCHANGED <<loaderVars_but_pc, radar_csv, radar_df, merged_df, exported>>

load_radar_csv ==
    /\ loader = "create_unified_dataset" /\ pc = "load_radar"
    /\ radar_df' = DeduplicateRadar(CleanRadar(radar_csv))
    /\ pc' = "merge"
    /\ UNCHANGED <<loaderVars_but_pc, parquet_df, radar_csv, merged_df, exported>>

MergedRow(b, r) ==
    [ID |-> b.ID, Title |-> b.Title, magnitude |-> r.magnitude,
     distance |-> r.distance, color_hex |-> r.color_hex,
     dimension |-> r.dimension]

NoRadar ==
    [magnitude |-> Null, distance |-> Null, color_hex |-> Null,
     dimension |-> Null]

\* variant: the rows are matched on the titles as written in the files
RECURSIVE JoinOnRawTitle(_, _)
JoinOnRawTitle(base, radar) ==
    IF base = <<>> THEN <<>>
    ELSE LET b == Head(base)
             matches == SelectSeq(radar, LAMBDA r : r.driving_force = b.Title)
         IN (IF matches = <<>> THEN <<MergedRow(b, NoRadar)>>
             ELSE [i \in 1..Len(matches) |-> MergedRow(b, matches[i])])
            \o JoinOnRawTitle(Tail(base), radar)

\* parquet_df.merge(radar_subset, on='title_normalized', how='left')
RECURSIVE LeftJoin(_, _)
LeftJoin(base, radar) ==
    IF base = <<>> THEN <<>>
    ELSE LET b == Head(base)
             matches == SelectSeq(radar,
                            LAMBDA r : r.title_normalized = b.title_normalized)
         IN (IF matches = <<>> THEN <<MergedRow(b, NoRadar)>>
             ELSE [i \in 1..Len(matches) |-> MergedRow(b, matches[i])])
            \o LeftJoin(Tail(base), radar)

\* variant: the row count of the join is not compared with the base count
CardinalityUnchecked(joined, original_count) == FALSE

\* "Verify 1:1 cardinality preserved": the condition that raises
CardinalityViolation(joined, original_count) == Len(joined) # original_count

\* merged_df['magnitude'].notna().sum()
MatchedCount(rows) ==
    Cardinality({i \in 1..Len(rows) : rows[i].magnitude # Null})

merge_datasets ==
    /\ loader \in {"create_unified_dataset", "merge_datasets"} /\ pc = "merge"
    /\ LET original_count == Len(parquet_df)
           joined == LeftJoin(parquet_df, radar_df)
       IN IF CardinalityViolation(joined, original_count)
          THEN /\ pc' = "idle" /\ report' = "exit 1"
               /\ UNCHANGED <<merged_df, run>>
          ELSE /\ merged_df' = joined
               /\ run' = [matched_count |-> MatchedCount(joined),
                          unmatched_count |-> Len(joined) - MatchedCount(joined)]
               /\ pc' = "export_csv"
               /\ UNCHANGED report
    /\ UNCHANGED <<loader, df, history, db, sess, attempted, raised, trace,
                   environ, args, db_name, parquet_df, radar_csv, radar_df,
                   exported>>

\* main: export_unified_dataset(unified_df, 'csv')
export_csv ==
    /\ loader \in {"create_unified_dataset", "merge_datasets"}
    /\ pc = "export_csv"
    /\ exported' = Append(exported, [format |-> "csv", rows |-> merged_df])
    /\ pc' = "export_excel"
    /\ UNCHANGED <<loaderVars_but_pc, parquet_df, radar_csv, radar_df, merged_df>>

\* main: export_unified_dataset(unified_df, 'excel')
export_excel ==
    /\ loader \in {"create_unified_dataset", "merge_datasets"}
    /\ pc = "export_excel"
    /\ exported' = Append(exported, [format |-> "excel", rows |-> merged_df])
    /\ pc' = "idle" /\ report' = "success"
    /\ UNCHANGED <<loader, df, history, db, sess, run, attempted, raised,
                   trace, environ, args, db_name, parquet_df, radar_csv,
                   radar_df, merged_df>>

----------------------------------------------------------------------------
(* The process is killed while a script runs: the connection is lost and   *)
(* the open transaction with it.                                           *)

Kill ==
    /\ pc = "loop"
    /\ sess' = Rollback(db)
    /\ pc' = "idle" /\ report' = "killed"
    /\ history' = [history EXCEPT !.kills = TRUE]
    /\ UNCHANGED <<loader, df, db, run, attempted, raised, trace, environ,
                   args, db_name, mergeVars>>

----------------------------------------------------------------------------

EmptyTables(projects) ==
    [driving_forces |-> <<>>, projects |-> projects, clusters |-> <<>>,
     reports |-> 0, workspaces |-> 0, clustering_reports |-> 0,
     saved_searches |-> 0]

EnvValues == {"unset", "", "1"}

DefaultProjectRow == [id |-> "p1", name |-> "Default", is_default |-> TRUE]

Loaders == {"complete_import", "finish_import", "quick_complete",
            "resume_correct_import", "fix_correct_import", "import_signals"}

SignalsProjectRow ==
    [id |-> "p2", name |-> "Signals Dataset", is_default |-> FALSE]

MergeIdle ==
    /\ parquet_df = <<>> /\ radar_csv = <<>> /\ radar_df = <<>>
    /\ merged_df = <<>> /\ exported = <<>>

Init ==
    /\ loader \in Loaders
    /\ \E n \in 1..MaxN : df = [i \in 1..n |-> i]
    /\ \E projects \in SUBSET {DefaultProjectRow, SignalsProjectRow} :
          /\ SignalsProjectRow \in projects => loader = "import_signals"
          /\ db = EmptyTables(projects)
    /\ sess = db
    /\ pc = "idle"
    /\ run = NewRun(0, <<>>, None)
    /\ report = "none"
    /\ history = [errors |-> FALSE, kills |-> FALSE]
    /\ attempted = <<>> /\ raised = {} /\ trace = <<>>
    /\ \E allow \in EnvValues :
          /\ allow # "unset" => loader = "import_signals"
          /\ environ = [ORION_IMPORT_ALLOW |-> "unset",
                        ORION_SIGNALS_IMPORT_ALLOW |-> allow,
                        DATABASE_URL |-> "url"]
    /\ \E dry_run \in BOOLEAN, file \in {"ok", "missing"} :
          /\ (dry_run \/ file = "missing") => loader = "import_signals"
          /\ args = [dry_run |-> dry_run, keep_existing |-> FALSE, file |-> file,
                     cluster_labels |-> <<>>]
    /\ db_name = <<"d", "e", "v">>
    /\ MergeIdle

Next ==
    \/ complete_import_start
    \/ complete_import_batch
    \/ complete_import_batch_error
    \/ complete_import_finish
    \/ finish_import_start
    \/ finish_import_batch
    \/ finish_import_batch_error
    \/ finish_import_finish
    \/ quick_resume_import_start
    \/ quick_resume_import_batch
    \/ quick_resume_import_batch_error
    \/ quick_resume_import_finish
    \/ resume_correct_import_start
    \/ resume_correct_import_batch
    \/ resume_correct_import_batch_error
    \/ resume_correct_import_finish
    \/ fix_correct_import_start
    \/ fix_correct_import_batch
    \/ fix_correct_import_batch_error
    \/ fix_correct_import_finish
    \/ import_signals_start
    \/ import_signals_chunk
    \/ import_signals_chunk_error
    \/ import_signals_finish
    \/ Kill

Spec == Init /\ [][Next]_vars

----------------------------------------------------------------------------
(* import-unified-dataset.py run against a store that holds earlier data *)

MaxUnifiedRows == 2     \* largest number of rows of the unified file

ProcessingProjectRow ==
    [id |-> "p3", name |-> "Processing", is_default |-> FALSE]

DbNames ==
    {<<"d", "e", "v">>, <<"P", "R", "O", "D">>,
     <<"x", "P", "r", "o", "d", "y">>, <<"p", "r", "o", "x", "d">>}

EarlierForces(project_id) ==
    {<<>>,
     <<Row("force-", 1, project_id)>>,
     <<Row("unified_", 1, project_id), Row("signal_", 1, project_id)>>}

InitUnified ==
    /\ loader = "import_unified_dataset"
    /\ \E n \in 1..MaxUnifiedRows : df = [i \in 1..n |-> i]
    /\ \E projects \in SUBSET {DefaultProjectRow, ProcessingProjectRow},
          aux \in 0..1 :
          \E forces \in EarlierForces("p1") :
             db = [driving_forces |-> forces, projects |-> projects,
                   clusters |-> [i \in 1..aux |-> ClusterRow(i, <<"Old">>, <<>>)],
                   reports |-> aux, workspaces |-> aux,
                   clustering_reports |-> aux, saved_searches |-> aux]
    /\ sess = db
    /\ pc = "idle"
    /\ run = NewRun(0, <<>>, None)
    /\ report = "none"
    /\ history = [errors |-> FALSE, kills |-> FALSE]
    /\ attempted = <<>> /\ raised = {} /\ trace = <<>>
    /\ \E allow \in EnvValues, url \in {"unset", "url"} :
          environ = [ORION_IMPORT_ALLOW |-> allow,
                     ORION_SIGNALS_IMPORT_ALLOW |-> "unset",
                     DATABASE_URL |-> url]
    /\ \E dry_run \in BOOLEAN, keep_existing \in BOOLEAN,
          file \in {"ok", "missing", "invalid"} :
          args = [dry_run |-> dry_run, keep_existing |-> keep_existing,
                  file |-> file]
    /\ db_name \in DbNames
    /\ MergeIdle

NextUnified ==
    \/ unified_main_gate
    \/ connect_to_db
    \/ clear_existing_data
    \/ clear_existing_data_error
    \/ keep_existing_project
    \/ load_unified_dataset
    \/ import_driving_forces
    \/ import_driving_forces_error

SpecUnified == InitUnified /\ [][NextUnified]_vars

----------------------------------------------------------------------------
(* create-unified-dataset.py on bounded input files *)

MaxRadarRows == 3        \* rows of the radar file when only it varies
MaxMergeRadarRows == 2   \* rows of the radar file when the base file varies too
MaxBaseRows == 2         \* rows of the base file

Number(n) == [kind |-> "number", num |-> n]
Empty == [kind |-> "empty", num |-> 0]
Junk == [kind |-> "junk", num |-> 0]

Variant(title, dimension, magnitude, dc) ==
    [title |-> title, dimension |-> dimension, magnitude |-> magnitude, dc |-> dc]

\* rows of the key "x" in two spellings, with and without each radar field,
\* one row of another key, one blank title and one missing title
RadarVariants ==
    {Variant(<< <<"X">> >>, d, m, dc) :
         d \in {Null, <<"tech">>}, m \in {Empty, Number(1), Number(3)},
         dc \in BOOLEAN}
    \cup {Variant(<< <<" ", "x">> >>, d, m, TRUE) :
              d \in {Null, <<"social">>}, m \in {Junk, Number(3)}}
    \cup {Variant(t, <<"tech">>, Number(1), TRUE) :
              t \in {<< <<"Y">> >>, << <<" ">> >>, Null}}

MergeRadarVariants ==
    {v \in RadarVariants :
        /\ v.dc
        /\ v.magnitude \in {Empty, Junk, Number(3)}}

\* the row of the file at line i: distance and colour are those of the line
RadarRow(v, i) ==
    [driving_force |-> v.title, dimension |-> v.dimension,
     magnitude |-> v.magnitude,
     distance |-> IF v.dc THEN Number(i) ELSE Empty,
     color_hex |-> IF v.dc THEN <<i>> ELSE Null]

RadarFiles(variants, maxRows) ==
    UNION {{[i \in 1..n |-> RadarRow(f[i], i)] : f \in [1..n -> variants]} :
              n \in 1..maxRows}

BaseTitles == {Null, << <<" ", "X">> >>, << <<"Z">> >>}

BaseFiles(maxRows) ==
    UNION {{[i \in 1..n |-> [ID |-> i, Title |-> f[i]]] : f \in [1..n -> BaseTitles]} :
              n \in 1..maxRows}

NormalizedBase(base) ==
    [i \in 1..Len(base) |->
        [ID |-> base[i].ID, Title |-> base[i].Title,
         title_normalized |-> normalize_title(base[i].Title)]]

StoreIdle ==
    /\ df = <<>>
    /\ db = EmptyTables({}) /\ sess = db
    /\ run = NewRun(0, <<>>, None)
    /\ report = "none"
    /\ history = [errors |-> FALSE, kills |-> FALSE]
    /\ attempted = <<>> /\ raised = {} /\ trace = <<>>
    /\ environ = [ORION_IMPORT_ALLOW |-> "unset",
                  ORION_SIGNALS_IMPORT_ALLOW |-> "unset",
                  DATABASE_URL |-> "url"]
    /\ args = [dry_run |-> FALSE, keep_existing |-> FALSE, file |-> "ok",
               cluster_labels |-> <<>>]
    /\ db_name = <<"d", "e", "v">>

\* main on a radar file of up to MaxRadarRows rows and a one-row base file
InitDedup ==
    /\ StoreIdle
    /\ loader = "create_unified_dataset" /\ pc = "load_parquet"
    /\ parquet_df = <<[ID |-> 1, Title |-> << <<" ", "X">> >>]>>
    /\ \E n \in 1..MaxRadarRows :
          \E f \in [1..n -> RadarVariants] :
             radar_csv = [i \in 1..n |-> RadarRow(f[i], i)]
    /\ radar_df = <<>> /\ merged_df = <<>> /\ exported = <<>>

NextMerge ==
    \/ load_parquet_data
    \/ load_radar_csv
    \/ merge_datasets
    \/ export_csv
    \/ export_excel

SpecDedup == InitDedup /\ [][NextMerge]_vars

\* main on both files, and merge_datasets given a radar frame that was
\* cleaned but not deduplicated
InitMerge ==
    /\ StoreIdle
    /\ merged_df = <<>> /\ exported = <<>>
    /\ \/ /\ loader = "create_unified_dataset" /\ pc = "load_parquet"
          /\ parquet_df \in BaseFiles(MaxBaseRows)
          /\ radar_csv \in RadarFiles(MergeRadarVariants, MaxMergeRadarRows)
          /\ radar_df = <<>>
       \/ /\ loader = "merge_datasets" /\ pc = "merge"
          /\ \E base \in BaseFiles(MaxBaseRows) : parquet_df = NormalizedBase(base)
          /\ radar_csv = <<>>
          /\ \E file \in RadarFiles(MergeRadarVariants, MaxMergeRadarRows) :
                radar_df = CleanRadar(file)

SpecMerge == InitMerge /\ [][NextMerge]_vars

----------------------------------------------------------------------------
(* The loaders run on a source whose ID values are not the row positions,  *)
(* against a store that holds rows of an earlier import under another      *)
(* project.                                                                *)

MaxSourceRows == 3      \* largest number of rows of the source
MaxSourceId == 3        \* largest ID value of a source row

\* the id prefix each script writes
LoaderPrefix ==
    CASE loader = "import_signals" -> "signal_"
      [] loader = "import_unified_dataset" -> "unified_"
      [] OTHER -> "force-"

\* a source file holds no ID value twice
DistinctIds(f) == \A i, j \in 1..Len(f) : i # j => f[i] # f[j]

RECURSIVE EarlierRows(_, _)
EarlierRows(ids, n) ==
    IF n = 0 THEN <<>>
    ELSE EarlierRows(ids, n - 1)
             \o (IF n \in ids THEN <<Row(LoaderPrefix, n, "p0")>> ELSE <<>>)

InitSources ==
    /\ loader \in Loaders \cup {"import_unified_dataset"}
    /\ \E n \in 1..MaxSourceRows :
          \E f \in [1..n -> 1..MaxSourceId] : DistinctIds(f) /\ df = f
    /\ \E ids \in SUBSET (1..MaxSourceId) :
          db = [EmptyTables({DefaultProjectRow}) EXCEPT
                   !.driving_forces = EarlierRows(ids, MaxSourceId)]
    /\ sess = db
    /\ pc = "idle"
    /\ run = NewRun(0, <<>>, None)
    /\ report = "none"
    /\ history = [errors |-> FALSE, kills |-> FALSE]
    /\ attempted = <<>> /\ raised = {} /\ trace = <<>>
    /\ environ = [ORION_IMPORT_ALLOW |-> "1",
                  ORION_SIGNALS_IMPORT_ALLOW |-> "1",
                  DATABASE_URL |-> "url"]
    /\ \E keep_existing \in BOOLEAN :
          /\ keep_existing => loader = "import_unified_dataset"
          /\ args = [dry_run |-> FALSE, keep_existing |-> keep_existing,
                     file |-> "ok", cluster_labels |-> <<>>]
    /\ db_name = <<"d", "e", "v">>
    /\ MergeIdle

NextSources == Next \/ NextUnified

SpecSources == InitSources /\ [][NextSources]_vars

----------------------------------------------------------------------------
(* fix_cluster_labels.py and update_cluster_names.py *)
(* args.features is the clustering artifact: whether it can be loaded, the *)
(* keys it holds and its cluster_labels and id arrays.  An entry of        *)
(* cluster_labels is Null (None) or <<index>>; force ids are written as    *)
(* the pairs RowId gives.  A label is the sequence of its parts: <<name>>  *)
(* for a name of the table, "Cluster " followed by the characters of the   *)
(* index otherwise.                                                        *)

\* fix_cluster_labels.CLUSTER_NAMES: entry i + 1 is the name of index i
fix_CLUSTER_NAMES ==
    <<"AI & Automation", "Healthcare Tech", "Sustainability", "Financial Tech",
      "Social Dynamics", "Smart Cities", "Energy Systems", "Digital Transformation",
      "Education Innovation", "Manufacturing 4.0", "Space & Defense", "Food & Agriculture",
      "Materials Science", "Quantum Computing", "Biotechnology", "Cybersecurity",
      "Transportation", "Climate Action", "Governance", "Future of Work",
      "Consumer Tech", "Media Evolution", "Supply Chain", "Data Economy",
      "Health & Wellness", "Urban Development", "Resource Management", "Scientific Research",
      "Risk & Resilience", "Human Enhancement", "Digital Society", "Environmental Tech",
      "Infrastructure", "Global Systems", "Emerging Markets", "Innovation Ecosystems">>

\* update_cluster_names.CLUSTER_NAMES
update_CLUSTER_NAMES ==
    <<"AI & Automation",
      "Healthcare Tech",
      "Sustainability",
      "Financial Tech",
      "Social Dynamics",
      "Smart Cities",
      "Energy Systems",
      "Digital Transformation",
      "Education Innovation",
      "Manufacturing 4.0",
      "Space & Defense",
      "Food & Agriculture",
      "Materials Science",
      "Quantum Computing",
      "Biotechnology",
      "Cybersecurity",
      "Transportation",
      "Climate Action",
      "Governance",
      "Future of Work",
      "Consumer Tech",
      "Media Evolution",
      "Supply Chain",
      "Data Economy",
      "Health & Wellness",
      "Urban Development",
      "Resource Management",
      "Scientific Research",
      "Risk & Resilience",
      "Human Enhancement",
      "Digital Society",
      "Environmental Tech",
      "Infrastructure",
      "Global Systems",
      "Emerging Markets",
      "Innovation Ecosystems">>

\* variant: every index outside the table gets the same label
FallbackUnnumbered(i) == <<"Cluster ">>

\* f"Cluster {i}"
FallbackLabel(i) ==
    LET chars == <<"0", "1", "2", "3", "4", "5", "6", "7", "8", "9">>
        str(n) == [k \in 1..Len(Digits(n)) |-> chars[Digits(n)[k] + 1]]
    IN <<"Cluster ">> \o (IF i < 0 THEN <<"-">> \o str(-i) ELSE str(i))

\* names.get(i, f"Cluster {i}") of a table with the keys 0..Len(names)-1
NamesGet(names, i) ==
    IF i + 1 \in 1..Len(names) THEN <<names[i + 1]>> ELSE FallbackLabel(i)

\* update_cluster_names.get_cluster_name
get_cluster_name(cluster_id) == NamesGet(update_CLUSTER_NAMES, cluster_id)

\* features.get(key, [])
FeaturesGet(features, key) ==
    IF key \in features.keys THEN features[key] ELSE <<>>

\* variant: only the cluster_labels array is looked at
LabelsEmpty(cluster_labels, ids) == cluster_labels = <<>>

\* not cluster_labels or not ids
ArtifactEmpty(cluster_labels, ids) == cluster_labels = <<>> \/ ids = <<>>

\* force_to_cluster: zip(ids, cluster_labels), entries that are no number
\* skipped, a later entry of the same force id replacing an earlier one
ForceToCluster(ids, cluster_labels) ==
    LET valid == {i \in 1..Min(Len(ids), Len(cluster_labels)) :
                     cluster_labels[i] # Null}
    IN [f \in {ids[i] : i \in valid} |->
           cluster_labels[CHOOSE i \in valid :
                              ids[i] = f /\ \A j \in valid : ids[j] = f => j <= i][1]]

\* variant: a first member the artifact does not know counts as index 0
PlannedWithDefaultIndex(clusters, force_to_cluster) ==
    LET numeric(c) == IF c.force_ids[1] \in DOMAIN force_to_cluster
                      THEN force_to_cluster[c.force_ids[1]] ELSE 0
        rows == SelectSeq(clusters,
                    LAMBDA c : /\ c.force_ids # <<>>
                               /\ NamesGet(fix_CLUSTER_NAMES, numeric(c)) # c.label)
    IN [k \in 1..Len(rows) |->
           [cluster_db_id |-> rows[k].id,
            new_label |-> NamesGet(fix_CLUSTER_NAMES, numeric(rows[k])),
            old_label |-> rows[k].label,
            cluster_numeric_id |-> numeric(rows[k])]]

\* main, the loop that fills updates
PlannedUpdates(clusters, force_to_cluster) ==
    LET numeric(c) == force_to_cluster[c.force_ids[1]]
        rows == SelectSeq(clusters,
                    LAMBDA c : /\ c.force_ids # <<>>
                               /\ c.force_ids[1] \in DOMAIN force_to_cluster
                               /\ NamesGet(fix_CLUSTER_NAMES, numeric(c)) # c.label)
    IN [k \in 1..Len(rows) |->
           [cluster_db_id |-> rows[k].id,
            new_label |-> NamesGet(fix_CLUSTER_NAMES, numeric(rows[k])),
            old_label |-> rows[k].label,
            cluster_numeric_id |-> numeric(rows[k])]]

\* variant: the UPDATE statements change no row
ApplyNothing(clusters, updates) == clusters

\* UPDATE clusters SET label = %s WHERE id = %s, for each planned update
ApplyUpdates(clusters, updates) ==
    [k \in 1..Len(clusters) |->
        IF \E u \in 1..Len(updates) : updates[u].cluster_db_id = clusters[k].id
        THEN [clusters[k] EXCEPT !.label =
                 updates[CHOOSE u \in 1..Len(updates) :
                             /\ updates[u].cluster_db_id = clusters[k].id
                             /\ \A v \in 1..Len(updates) :
                                    updates[v].cluster_db_id = clusters[k].id
                                    => v <= u].new_label]
        ELSE clusters[k]]

\* main up to "Created mapping for ... forces"
fix_cluster_labels_load ==
    /\ loader = "fix_cluster_labels" /\ pc = "idle"
    /\ trace' = <<>>
    /\ IF \/ ~EnvSet(environ.DATABASE_URL)
          \/ ~args.features.readable
          \/ ArtifactEmpty(FeaturesGet(args.features, "cluster_labels"),
                           FeaturesGet(args.features, "id"))
       THEN /\ pc' = "idle" /\ report' = "False"
            /\ UNCHANGED run
       ELSE /\ run' = [force_to_cluster |->
                          ForceToCluster(FeaturesGet(args.features, "id"),
                                         FeaturesGet(args.features, "cluster_labels")),
                       updates |-> <<>>]
            /\ pc' = "plan"
            /\ UNCHANGED report
    /\ UNCHANGED <<loader, df, history, db, sess, attempted, raised, environ,
                   args, db_name, mergeVars>>

\* main from "Connecting to database" to "Planned updates"
fix_cluster_labels_plan ==
    /\ loader = "fix_cluster_labels" /\ pc = "plan"
    /\ run' = [run EXCEPT !.updates =
                  PlannedUpdates(sess.clusters, run.force_to_cluster)]
    /\ pc' = "apply"
    /\ UNCHANGED <<loader, df, history, db, sess, report, attempted, raised,
                   trace, environ, args, db_name, mergeVars>>

\* main, "Apply updates" to return True
fix_cluster_labels_apply ==
    /\ loader = "fix_cluster_labels" /\ pc = "apply"
    /\ IF run.updates # <<>>
       THEN LET updated == [sess EXCEPT !.clusters = ApplyUpdates(@, run.updates)]
            IN /\ sess' = updated
               /\ db' = Commit(updated)
               /\ trace' = [u \in 1..Len(run.updates) |-> "UPDATE clusters"]
                               \o <<"COMMIT">>
       ELSE UNCHANGED <<db, sess, trace>>
    /\ pc' = "idle" /\ report' = "True"
    /\ UNCHANGED <<loader, df, history, run, attempted, raised, environ, args,
                   db_name, mergeVars>>

\* main's except returns False.  The connection, the SELECT, one of the
\* UPDATEs or the commit raised and nothing of the run is committed, or
\* the SELECT that verifies the labels raised after the commit.
fix_cluster_labels_error ==
    /\ loader = "fix_cluster_labels" /\ pc \in {"plan", "apply"}
    /\ \/ /\ \E n \in 0..(IF pc = "apply" THEN Len(run.updates) ELSE 0) :
                trace' = [u \in 1..n |-> "UPDATE clusters"]
          /\ sess' = Rollback(db)
          /\ db' = db
       \/ /\ pc = "apply" /\ run.updates # <<>>
          /\ sess' = [sess EXCEPT !.clusters = ApplyUpdates(@, run.updates)]
          /\ db' = Commit(sess')
          /\ trace' = [u \in 1..Len(run.updates) |-> "UPDATE clusters"]
                          \o <<"COMMIT">>
    /\ pc' = "idle" /\ report' = "False"
    /\ history' = [history EXCEPT !.errors = TRUE]
    /\ UNCHANGED <<loader, df, run, attempted, raised, environ, args,
                   db_name, mergeVars>>

MaxArtifactRows == 2     \* largest length of the artifact's arrays
MaxClusterIndex == 37    \* largest cluster index of the artifact, besides 99

ClusterIndices == (-1..MaxClusterIndex) \cup {99}

Artifact(readable, keys, cluster_labels, ids) ==
    [readable |-> readable, keys |-> keys, cluster_labels |-> cluster_labels,
     id |-> ids]

\* the artifacts: unreadable, without one of the arrays, or with arrays of
\* up to MaxArtifactRows entries; the first label is any index or None
Artifacts ==
    {Artifact(FALSE, {}, <<>>, <<>>)}
    \cup {Artifact(TRUE, k, << <<13>> >>, << <<"force-", 1>> >>) :
             k \in {{}, {"cluster_labels"}, {"id"}}}
    \cup UNION {{Artifact(TRUE, {"cluster_labels", "id"}, l, ids) :
                   l \in {f \in [1..n -> {<<i>> : i \in ClusterIndices} \cup {Null}] :
                              \A i \in 2..n : f[i] \in {<<13>>, <<99>>, Null}},
                   ids \in {[i \in 1..m |-> <<"force-", i>>] : m \in 0..n}
                              \cup {[i \in 1..n |-> <<"force-", 1>>]}} :
                 n \in 0..MaxArtifactRows}

ClusterTables ==
    {<<>>,
     <<ClusterRow(1, <<"Old">>, <<<<"force-", 1>>>>)>>,
     <<ClusterRow(1, <<"Quantum Computing">>, <<<<"force-", 1>>, <<"force-", 2>>>>)>>,
     <<ClusterRow(1, <<"Old">>, <<>>), ClusterRow(2, <<"Old">>, <<<<"force-", 2>>, <<"force-", 1>>>>)>>,
     <<ClusterRow(1, <<"Old">>, <<<<"force-", 2>>>>), ClusterRow(2, <<"Old">>, <<<<"force-", 1>>>>)>>,
     <<ClusterRow(1, FallbackLabel(99), <<<<"force-", 3>>>>),
       ClusterRow(2, <<"Old">>, <<<<"force-", 2>>>>)>>}

InitClusters ==
    /\ loader = "fix_cluster_labels"
    /\ df = <<>>
    /\ \E clusters \in ClusterTables :
          db = [EmptyTables({DefaultProjectRow}) EXCEPT !.clusters = clusters]
    /\ sess = db
    /\ pc = "idle"
    /\ run = [force_to_cluster |-> <<>>, updates |-> <<>>]
    /\ report = "none"
    /\ history = [errors |-> FALSE, kills |-> FALSE]
    /\ attempted = <<>> /\ raised = {} /\ trace = <<>>
    /\ \E url \in {"unset", "url"} :
          environ = [ORION_IMPORT_ALLOW |-> "unset",
                     ORION_SIGNALS_IMPORT_ALLOW |-> "unset",
                     DATABASE_URL |-> url]
    /\ \E features \in Artifacts : args = [features |-> features]
    /\ db_name = <<"d", "e", "v">>
    /\ MergeIdle

NextClusters ==
    \/ fix_cluster_labels_load
    \/ fix_cluster_labels_plan
    \/ fix_cluster_labels_apply
    \/ fix_cluster_labels_error

SpecClusters == InitClusters /\ [][NextClusters]_vars

----------------------------------------------------------------------------
(* The record a loader builds from a source row.  A source row carries its *)
(* ID, its 'Driving Force' label and its 'Level of Impact' cell, Null for  *)
(* NaN or <<v>>; a score is written in tenths, 150 for 15.0.  The rows of  *)
(* the unified file have no dimension and no Tags.                         *)

SourceRow(id, driving_force, level_of_impact) ==
    [ID |-> id, Driving_Force |-> driving_force,
     Level_of_Impact |-> level_of_impact]

\* variant: the label is matched whatever its case
force_type_mapping_lower(label) ==
    CASE label \in {"Megatrends", "megatrends"} -> "M"
      [] label = "Trends" -> "T"
      [] label = "Weak Signals" -> "WS"
      [] label = "Wildcards" -> "WC"
      [] OTHER -> "S"

\* force_type_mapping.get(label, 'S'); .map(force_type_mapping).fillna('S')
force_type_mapping(label) ==
    CASE label = "Megatrends" -> "M"
      [] label = "Trends" -> "T"
      [] label = "Weak Signals" -> "WS"
      [] label = "Wildcards" -> "WC"
      [] label = "Signals" -> "S"
      [] OTHER -> "S"

\* steep_mapping.get(mapped_force_type, 'Social')
steep_mapping(mapped_force_type) ==
    CASE mapped_force_type = "M" -> "Social"
      [] mapped_force_type = "T" -> "Technological"
      [] mapped_force_type = "WS" -> "Social"
      [] mapped_force_type = "WC" -> "Environmental"
      [] mapped_force_type = "S" -> "Technological"
      [] OTHER -> "Social"

\* impact_score of the legacy loaders: None, or max(1.0, min(10.0, value))
impact_score(level_of_impact) ==
    IF level_of_impact = Null THEN Null
    ELSE LET impact_val == level_of_impact[1]
         IN <<IF impact_val > 100 THEN 100
              ELSE IF impact_val < 10 THEN 10 ELSE impact_val>>

\* 'impact' of import_driving_forces: float(value), or 5.0 for NaN
unified_impact(level_of_impact) ==
    IF level_of_impact = Null THEN <<50>> ELSE level_of_impact

\* the tuple a legacy loader appends to batch_records
LegacyRecord(row, project_id) ==
    [prefix |-> "force-", num |-> row.ID, project_id |-> project_id,
     type |-> force_type_mapping(row.Driving_Force),
     steep |-> steep_mapping(force_type_mapping(row.Driving_Force)),
     impact |-> impact_score(row.Level_of_Impact)]

\* the record import_driving_forces builds for the row at index idx, with
\* the type_code validate_dataset gave the row
UnifiedRecord(row, idx, project_id) ==
    [prefix |-> "unified_", num |-> idx + 1, project_id |-> project_id,
     type |-> force_type_mapping(row.Driving_Force),
     steep |-> "technological",
     impact |-> unified_impact(row.Level_of_Impact)]

\* the body of the loop over the source rows: one record is built
build_record ==
    /\ pc = "build" /\ run.idx < Len(df)
    /\ run' = [run EXCEPT
                  !.idx = @ + 1,
                  !.records =
                      Append(@, IF loader = "import_unified_dataset"
                                THEN UnifiedRecord(df[run.idx + 1], run.idx,
                                                   run.project_id)
                                ELSE LegacyRecord(df[run.idx + 1],
                                                  run.project_id))]
    /\ UNCHANGED <<loader, df, history, db, sess, pc, report, attempted,
                   raised, trace, environ, args, db_name, mergeVars>>

\* the INSERT of the records built, and the commit
store_records ==
    /\ pc = "build" /\ run.idx = Len(df)
    /\ sess' = [sess EXCEPT
                   !.driving_forces =
                       IF loader = "import_unified_dataset"
                       THEN @ \o run.records
                       ELSE InsertIgnoreConflict(@, run.records)]
    /\ db' = Commit(sess')
    /\ pc' = "done"
    /\ UNCHANGED <<loader, df, history, run, report, attempted, raised,
                   trace, environ, args, db_name, mergeVars>>

MaxRecordRows == 2      \* largest number of source rows a record is built of

LegacyLoaders == Loaders \ {"import_signals"}

ForceLabels ==
    {"Megatrends", "Trends", "Weak Signals", "Wildcards", "Signals",
     "Unknown Category", "megatrends"}

\* 'Level of Impact' cells: NaN, -2.0, 0.0, 0.9, 1.0, 5.5, 10.0, 10.1, 15.0
ImpactCells == {Null} \cup {<<v>> : v \in {-20, 0, 9, 10, 55, 100, 101, 150}}

InitRecords ==
    /\ loader \in LegacyLoaders \cup {"import_unified_dataset"}
    /\ \E n \in 1..MaxRecordRows :
       \E label \in ForceLabels, cell \in ImpactCells :
       \E rest \in [2..n -> {<<"Trends", <<150>> >>, <<"trends", Null>>,
                            <<"Wildcards", <<-20>> >>}] :
          df = [i \in 1..n |->
                   IF i = 1 THEN SourceRow(i, label, cell)
                   ELSE SourceRow(i, rest[i][1], rest[i][2])]
    /\ db = EmptyTables({DefaultProjectRow})
    /\ sess = db
    /\ pc = "build"
    /\ run = [idx |-> 0, records |-> <<>>, project_id |-> "p1"]
    /\ report = "none"
    /\ history = [errors |-> FALSE, kills |-> FALSE]
    /\ attempted = <<>> /\ raised = {} /\ trace = <<>>
    /\ environ = [ORION_IMPORT_ALLOW |-> "1",
                  ORION_SIGNALS_IMPORT_ALLOW |-> "unset",
                  DATABASE_URL |-> "url"]
    /\ args = [dry_run |-> FALSE, keep_existing |-> FALSE, file |-> "ok",
               cluster_labels |-> <<>>]
    /\ db_name = <<"d", "e", "v">>
    /\ MergeIdle

NextRecords == build_record \/ store_records

SpecRecords == InitRecords /\ [][NextRecords]_vars

----------------------------------------------------------------------------
(* The capped loaders, invoked again and again with no batch raising and   *)
(* no run killed, on a store that holds the first rows of the source       *)

InitCapped ==
    /\ loader \in {"finish_import", "quick_complete"}
    /\ \E n \in 1..MaxN : df = [i \in 1..n |-> i]
    /\ \E k \in 0..Len(df) :
          db = [EmptyTables({DefaultProjectRow}) EXCEPT
                   !.driving_forces = [i \in 1..k |-> Row("force-", df[i], "p1")]]
    /\ sess = db
    /\ pc = "idle"
    /\ run = NewRun(0, <<>>, None)
    /\ report = "none"
    /\ history = [errors |-> FALSE, kills |-> FALSE]
    /\ attempted = <<>> /\ raised = {} /\ trace = <<>>
    /\ environ = [ORION_IMPORT_ALLOW |-> "unset",
                  ORION_SIGNALS_IMPORT_ALLOW |-> "unset",
                  DATABASE_URL |-> "url"]
    /\ args = [dry_run |-> FALSE, keep_existing |-> FALSE, file |-> "ok",
               cluster_labels |-> <<>>]
    /\ db_name = <<"d", "e", "v">>
    /\ MergeIdle

NextCapped ==
    \/ finish_import_start
    \/ finish_import_batch
    \/ finish_import_finish
    \/ quick_resume_import_start
    \/ quick_resume_import_batch
    \/ quick_resume_import_finish

\* the loader is invoked again whenever it has returned, and a run goes on
SpecCapped == InitCapped /\ [][NextCapped]_vars /\ WF_vars(NextCapped)

----------------------------------------------------------------------------
(* The legacy loaders run with the cluster labels of the features          *)
(* artifact, on a store that holds two clusters; batches may raise, no run *)
(* is killed                                                               *)

MaxLabelRows == 7       \* largest number of rows of the source

LabelValues == {0, 1}

InitLabels ==
    /\ loader \in LegacyLoaders
    /\ \E n \in 1..MaxLabelRows : df = [i \in 1..n |-> i]
    /\ \E order \in {<<1, 2>>, <<2, 1>>} :
          db = [EmptyTables({DefaultProjectRow}) EXCEPT
                   !.clusters = [i \in 1..2 |-> ClusterRow(order[i], <<"Old">>, <<>>)]]
    /\ sess = db
    /\ pc = "idle"
    /\ run = NewRun(0, <<>>, None)
    /\ report = "none"
    /\ history = [errors |-> FALSE, kills |-> FALSE]
    /\ attempted = <<>> /\ raised = {} /\ trace = <<>>
    /\ environ = [ORION_IMPORT_ALLOW |-> "unset",
                  ORION_SIGNALS_IMPORT_ALLOW |-> "unset",
                  DATABASE_URL |-> "url"]
    /\ \E m \in {Len(df) - 1, Len(df)} :
          \E labels \in [1..m -> LabelValues] :
             /\ args = [dry_run |-> FALSE, keep_existing |-> FALSE,
                        file |-> "ok", cluster_labels |-> labels]
    /\ db_name = <<"d", "e", "v">>
    /\ MergeIdle

NextLabels ==
    \/ complete_import_start
    \/ complete_import_batch
    \/ complete_import_batch_error
    \/ complete_import_finish
    \/ finish_import_start
    \/ finish_import_batch
    \/ finish_import_batch_error
    \/ finish_import_finish
    \/ quick_resume_import_start
    \/ quick_resume_import_batch
    \/ quick_resume_import_batch_error
    \/ quick_resume_import_finish
    \/ resume_correct_import_start
    \/ resume_correct_import_batch
    \/ resume_correct_import_batch_error
    \/ resume_correct_import_finish
    \/ fix_correct_import_start
    \/ fix_correct_import_batch
    \/ fix_correct_import_batch_error
    \/ fix_correct_import_finish

SpecLabels == InitLabels /\ [][NextLabels]_vars

----------------------------------------------------------------------------
(* Properties of the batch loaders *)

ResumableLoaders == {"complete_import", "finish_import", "quick_complete",
                     "resume_correct_import"}

\* the ids 'force-<ID>' of all rows of the source
SourceForceIds == {<<"force-", df[i]>> : i \in 1..Len(df)}

\* ids of the rows of batch b of the current run
BatchIds(b) ==
    LET batch == BatchOf(run.to_import, b, LoaderBatchSize)
    IN {<<IF loader = "import_signals" THEN "signal_" ELSE "force-",
          df[batch[i]]>> : i \in 1..Len(batch)}

RunEnded ==
    pc = "idle" /\ report \in {"session_done", "capped", "aborted", "success"}

\* C1: idempotent resume.  With no batch error, whenever a resumable loader
\* reports that nothing remains to import, the store holds exactly the N
\* records 'force-<ID>' of the source and no id twice.
C1_IdempotentResume ==
    (/\ loader \in ResumableLoaders
     /\ ~history.errors
     /\ pc = "idle" /\ report = "already_complete")
    => /\ IdsOf(db.driving_forces) = SourceForceIds
       /\ Len(db.driving_forces) = Len(df)

\* C2: batch rollback scope.  When a run ends, every batch of the run whose
\* insert did not raise is present in the store, whichever batches raised.
C2_RollbackOnlyFailedBatch ==
    (RunEnded /\ ~args.dry_run)
    => \A k \in 1..Len(attempted) :
           attempted[k] \notin raised
           => BatchIds(attempted[k]) \subseteq IdsOf(db.driving_forces)

\* C3: the run continues after a batch error.  When a run ends, its batches
\* were attempted in source order without a gap, and all of them unless the
\* run stopped at its batch cap.
C3_RunContinuesAfterError ==
    (RunEnded /\ ~args.dry_run)
    => /\ attempted = [i \in 1..Len(attempted) |-> i - 1]
       /\ report # "capped"
          => Len(attempted) = BatchCount(Len(run.to_import), LoaderBatchSize)

\* the DELETE of driving_forces in t was preceded by both checks of the gate
GatePassed(t) ==
    \E k \in 1..Len(t) :
        /\ t[k] = "DELETE driving_forces"
        /\ \E i \in 1..(k - 1) : t[i] = "ORION_IMPORT_ALLOW set"
        /\ \E i \in 1..(k - 1) : t[i] = "not production"

\* C5: every destructive operation is gated.  Rows are deleted from
\* driving_forces only after the confirmation flag was found set and the
\* store's name was checked not to denote production.
C5_DeleteOnlyBehindGate ==
    [][Len(db'.driving_forces) < Len(db.driving_forces) => GatePassed(trace')]_vars

----------------------------------------------------------------------------
(* Properties of the clear-and-reload importer *)

NoFlagClearAndReload ==
    /\ loader = "import_unified_dataset"
    /\ ~args.keep_existing /\ ~args.dry_run
    /\ environ.ORION_IMPORT_ALLOW \in {"unset", ""}

\* C4: safety gate, confirmation flag.  A clear-and-reload invocation
\* (neither --keep-existing nor --dry-run) without ORION_IMPORT_ALLOW ends
\* with exit status 1 and no step of it changes a table of the store.
C4_NoFlagLeavesStoreUnchanged ==
    [][NoFlagClearAndReload
       => /\ db' = db /\ sess' = sess
          /\ pc' = "idle" /\ report' = "exit 1"]_vars

C4_Witness ==
    /\ NoFlagClearAndReload
    /\ pc = "idle" /\ report = "exit 1"
    /\ db.driving_forces # <<>> /\ db.reports > 0 /\ db.projects # {}
    /\ environ.DATABASE_URL = "url" /\ ~IsProduction(db_name)

DestructiveOrCommit == {ClearStatements[k] : k \in 1..Len(ClearStatements)}
                           \cup {"COMMIT"}

\* C6: safety gate, production store.  When the database name contains
\* 'prod' in any letter case, a run that reaches clear_existing_data
\* executes no DELETE and commits nothing, so the store is unchanged; without
\* --dry-run clear_existing_data raises and the run ends with exit status 1,
\* also when ORION_IMPORT_ALLOW is set.
C6_ProductionStoreRefused ==
    [][(/\ loader = "import_unified_dataset"
        /\ ~args.keep_existing
        /\ Contains(<<"p", "r", "o", "d">>,
                    [i \in 1..Len(db_name) |-> LowerChar(db_name[i])]))
       => /\ db' = db
          /\ \A k \in 1..Len(trace') : trace'[k] \notin DestructiveOrCommit
          /\ (pc = "clear" /\ ~args.dry_run)
             => (pc' = "idle" /\ report' = "exit 1")]_vars

C6_Witness ==
    /\ loader = "import_unified_dataset"
    /\ db_name = <<"x", "P", "r", "o", "d", "y">>
    /\ ~args.keep_existing /\ ~args.dry_run
    /\ environ.ORION_IMPORT_ALLOW = "1"
    /\ trace = <<"ORION_IMPORT_ALLOW set">>
    /\ pc = "idle" /\ report = "exit 1"
    /\ db.driving_forces # <<>> /\ db.clusters # <<>>

----------------------------------------------------------------------------
(* Properties of the radar deduplicator and the cross-source matcher *)

MergeReturned == pc \notin {"load_parquet", "load_radar", "merge"}

\* C7: cardinality preservation.  In a run of main, load_radar_csv's
\* deduplication followed by merge_datasets does not fail and yields exactly
\* one row per base row, in base order, also for base rows that share a
\* title or have none and for radar rows that repeat a key.
C7_CardinalityPreserved ==
    (loader = "create_unified_dataset" /\ MergeReturned)
    => /\ report # "exit 1"
       /\ Len(merged_df) = Len(parquet_df)
       /\ \A i \in 1..Len(parquet_df) : merged_df[i].ID = parquet_df[i].ID

C7_Witness ==
    /\ loader = "create_unified_dataset" /\ pc = "idle"
    /\ Len(parquet_df) = 2
    /\ parquet_df[1].Title = parquet_df[2].Title
    /\ parquet_df[1].title_normalized = <<"x">>
    /\ Len(radar_csv) = 2
    /\ HasDuplicates(CleanRadar(radar_csv))
    /\ Len(merged_df) = 2 /\ merged_df[2].distance # Null

\* C8: CardinalityViolation is a hard gate.  Whenever the left join of
\* merge_datasets has a row count other than the base row count, the run
\* ends in an error, no merged frame is returned and no unified dataset file
\* is written.
C8_CardinalityViolationAborts ==
    (MergeReturned /\ Len(LeftJoin(parquet_df, radar_df)) # Len(parquet_df))
    => /\ pc = "idle" /\ report = "exit 1"
       /\ merged_df = <<>>
       /\ exported = <<>>

C8_Witness ==
    /\ loader = "merge_datasets"
    /\ pc = "idle" /\ report = "exit 1"
    /\ Len(parquet_df) = 2
    /\ Len(LeftJoin(parquet_df, radar_df)) = 3
    /\ exported = <<>>

ValidKeys(file) ==
    {normalize_title(file[i].driving_force) :
        i \in {j \in 1..Len(file) : ValidTitle(file[j].driving_force)}}

\* C9: dedup uniqueness.  The result of load_radar_csv holds no normalized
\* title key twice, and its key set is the key set of the input rows whose
\* title is not empty.
C9_DedupKeysUnique ==
    (loader = "create_unified_dataset" /\ pc \notin {"load_parquet", "load_radar"})
    => /\ \A i, j \in 1..Len(radar_df) :
              i < j => radar_df[i].title_normalized # radar_df[j].title_normalized
       /\ {radar_df[i].title_normalized : i \in 1..Len(radar_df)}
              = ValidKeys(radar_csv)

C9_Witness ==
    /\ loader = "create_unified_dataset" /\ pc = "merge"
    /\ Len(radar_csv) = 3
    /\ \E i, j, k \in 1..3 :
          /\ radar_csv[i].driving_force = << <<"X">> >>
          /\ radar_csv[j].driving_force = << <<" ", "x">> >>
          /\ radar_csv[k].driving_force = << <<" ">> >>
    /\ Len(radar_df) = 1 /\ radar_df[1].title_normalized = <<"x">>

\* C10: the dedup winner is one whole input row.  For every key the
\* deduplicated row has the dimension, magnitude, distance and color_hex of
\* one input row of that key which no other row of the key outranks.
C10_WinnerIsOneInputRow ==
    (loader = "create_unified_dataset" /\ pc \notin {"load_parquet", "load_radar"})
    => LET clean == CleanRadar(radar_csv)
       IN \A k \in 1..Len(radar_df) :
              \E i \in 1..Len(clean) :
                  /\ clean[i].title_normalized = radar_df[k].title_normalized
                  /\ \A j \in 1..Len(clean) :
                         clean[j].title_normalized = clean[i].title_normalized
                         => ~SortsBefore(clean[j], clean[i])
                  /\ clean[i].dimension = radar_df[k].dimension
                  /\ clean[i].magnitude = radar_df[k].magnitude
                  /\ clean[i].distance = radar_df[k].distance
                  /\ clean[i].color_hex = radar_df[k].color_hex

\* C11: dedup prefers a row with a dimension, whatever the input order.  For
\* every radar file (so for every ordering of its rows) and every key of
\* which some input row has a dimension, the deduplicated row of that key
\* has a dimension, and it is the dimension of an input row of that key.
C11_DedupPrefersDimension ==
    (loader = "create_unified_dataset" /\ pc \notin {"load_parquet", "load_radar"})
    => LET clean == CleanRadar(radar_csv)
       IN \A k \in 1..Len(radar_df) :
              (\E i \in 1..Len(clean) :
                   /\ clean[i].title_normalized = radar_df[k].title_normalized
                   /\ clean[i].dimension # Null)
              => /\ radar_df[k].dimension # Null
                 /\ \E i \in 1..Len(clean) :
                        /\ clean[i].title_normalized = radar_df[k].title_normalized
                        /\ clean[i].dimension = radar_df[k].dimension

\* the spec's example: X without dimension and magnitude 3 comes first, X
\* with dimension tech and magnitude 1 second
C11_Witness ==
    /\ loader = "create_unified_dataset" /\ pc = "merge"
    /\ Len(radar_csv) = 2
    /\ radar_csv[1].driving_force = << <<"X">> >> /\ radar_csv[1].dimension = Null
    /\ radar_csv[1].magnitude = Number(3)
    /\ radar_csv[2].driving_force = << <<"X">> >>
    /\ radar_csv[2].dimension = <<"tech">>
    /\ radar_csv[2].magnitude = Number(1)
    /\ Len(radar_df) = 1
    /\ radar_df[1].dimension = <<"tech">> /\ radar_df[1].magnitude = <<1>>

----------------------------------------------------------------------------
(* Properties of the stored rows *)

\* a step in which a batch loader's insert of batch run.batch_idx succeeded
BatchInserted ==
    /\ loader \in ResumableLoaders \cup {"import_signals"}
    /\ ~args.dry_run
    /\ attempted' = Append(attempted, run.batch_idx)
    /\ raised' = raised

\* C12: insert is a no-op on id conflict.  When a resumable loader or
\* import_signals inserts a batch, every row the store held keeps its
\* position and all its field values, the row count grows by the number of
\* batch ids the store did not hold, and a batch whose ids are all in the
\* store leaves it unchanged.
C12_InsertNoOpOnConflict ==
    [][BatchInserted
       => LET old == sess.driving_forces
              new == sess'.driving_forces
              fresh == BatchIds(run.batch_idx) \ IdsOf(old)
          IN /\ Len(new) = Len(old) + Cardinality(fresh)
             /\ \A k \in 1..Len(old) : new[k] = old[k]
             /\ (fresh = {}) => new = old]_vars

\* a batch was inserted whose id the store already held under another project
C12_Witness ==
    /\ loader \in ResumableLoaders \cup {"import_signals"}
    /\ pc = "idle" /\ report \in {"session_done", "success"}
    /\ raised = {} /\ attempted # <<>>
    /\ \E i \in 1..Len(db.driving_forces) :
          /\ db.driving_forces[i].project_id = "p0"
          /\ \E k \in 1..Len(attempted) :
                 RowId(db.driving_forces[i]) \in BatchIds(attempted[k])
    /\ \E i \in 1..Len(db.driving_forces) : db.driving_forces[i].project_id = "p1"

\* a step in which import_driving_forces inserted the rows of the file
UnifiedInserted ==
    /\ loader = "import_unified_dataset" /\ ~args.dry_run
    /\ pc = "import" /\ report' = "success"

\* C13: stable ids.  The id of every record a loader stores is its prefix
\* followed by the ID field of the source row the record was built from:
\* the rows a batch insert adds carry IDs of the batch's source rows, and
\* the rows import_driving_forces adds carry, in file order, the IDs of the
\* rows of the file.
C13_StableIds ==
    [][LET old == sess.driving_forces
           new == sess'.driving_forces
           added == SubSeq(new, Len(old) + 1, Len(new))
       IN /\ BatchInserted
             => \A j \in 1..Len(added) : RowId(added[j]) \in BatchIds(run.batch_idx)
          /\ UnifiedInserted
             => /\ Len(added) = Len(df)
                /\ \A i \in 1..Len(df) : RowId(added[i]) = <<"unified_", df[i]>>]_vars

----------------------------------------------------------------------------
(* Properties of the cluster label resolver *)

\* the cluster indices the force ids of the artifact are mapped to
MappedIndices == {run.force_to_cluster[f] : f \in DOMAIN run.force_to_cluster}

\* C14: the cluster label is a pure function of the numeric index.  For
\* every index the resolver has mapped, the two copies of the name table
\* give the same label; it is a name of the table when 0 <= i <= 35 and
\* "Cluster <i>" otherwise; 13 gives "Quantum Computing", 99 "Cluster 99";
\* and every planned update carries the label of its index.
C14_LabelIsFunctionOfIndex ==
    (loader = "fix_cluster_labels" /\ pc \in {"plan", "apply"})
    => /\ \A i \in MappedIndices :
              LET label == NamesGet(fix_CLUSTER_NAMES, i)
              IN /\ label = get_cluster_name(i)
                 /\ (0 <= i /\ i <= 35) => (Len(label) = 1 /\ label[1] # "Cluster ")
                 /\ ~(0 <= i /\ i <= 35)
                    => (label[1] = "Cluster " /\ Len(label) > 1
                        /\ \A j \in MappedIndices :
                               NamesGet(fix_CLUSTER_NAMES, j) = label => j = i)
                 /\ i = 13 => label = <<"Quantum Computing">>
                 /\ i = 99 => label = <<"Cluster ", "9", "9">>
       /\ \A u \in 1..Len(run.updates) :
              run.updates[u].new_label
                  = get_cluster_name(run.updates[u].cluster_numeric_id)

C14_Witness ==
    /\ loader = "fix_cluster_labels" /\ pc = "apply"
    /\ MappedIndices = {13, 99}
    /\ Len(run.updates) = 2
    /\ run.updates[1].new_label = <<"Cluster ", "9", "9">>
    /\ run.updates[2].new_label = <<"Quantum Computing">>

\* C15: the resolver is idempotent.  In a run that follows a successful
\* run (report is still "True") the plan is empty, no UPDATE is executed
\* and no cluster row changes.
C15_ResolverIdempotent ==
    [][(loader = "fix_cluster_labels" /\ report = "True")
       => /\ (pc = "plan" /\ pc' = "apply") => run'.updates = <<>>
          /\ pc = "apply"
             => /\ db'.clusters = db.clusters
                /\ sess'.clusters = sess.clusters
                /\ \A k \in 1..Len(trace') : trace'[k] # "UPDATE clusters"]_vars

\* a second run has planned nothing after a first run that relabelled the
\* cluster of force-2 to "Cluster 99"
C15_Witness ==
    /\ loader = "fix_cluster_labels" /\ pc = "apply" /\ report = "True"
    /\ run.updates = <<>>
    /\ \E k \in 1..Len(db.clusters) :
          /\ db.clusters[k].force_ids = << <<"force-", 2>> >>
          /\ db.clusters[k].label = <<"Cluster ", "9", "9">>

\* the artifact cannot be loaded, or lacks or has an empty cluster_labels
\* or id array
ArtifactInvalid ==
    \/ ~args.features.readable
    \/ "cluster_labels" \notin args.features.keys
    \/ "id" \notin args.features.keys
    \/ args.features.cluster_labels = <<>>
    \/ args.features.id = <<>>

\* C16: with an invalid artifact main reports failure and performs no
\* write: the run ends in its first step with False, no statement is
\* executed and no cluster row changes.
C16_ArtifactInvalidNoWrites ==
    [][(loader = "fix_cluster_labels" /\ pc = "idle" /\ ArtifactInvalid)
       => /\ pc' = "idle" /\ report' = "False"
          /\ trace' = <<>>
          /\ db' = db /\ sess' = sess]_vars

\* main has returned False for an artifact whose id array is empty, with
\* the database reachable and a cluster that a valid artifact would relabel
C16_Witness ==
    /\ loader = "fix_cluster_labels" /\ pc = "idle" /\ report = "False"
    /\ ~history.errors
    /\ EnvSet(environ.DATABASE_URL)
    /\ args.features.readable
    /\ args.features.keys = {"cluster_labels", "id"}
    /\ args.features.cluster_labels # <<>> /\ args.features.id = <<>>
    /\ \E k \in 1..Len(db.clusters) : db.clusters[k].label = <<"Old">>

----------------------------------------------------------------------------
(* Properties of the records *)

\* C17: every non-null impact a loader writes to the store lies in
\* [1.0, 10.0]: a source value above 10 is stored as 10.0, one below 1 as
\* 1.0, for the legacy loaders and for import_driving_forces alike.
C17_ImpactClamped ==
    \A i \in 1..Len(db.driving_forces) :
        LET impact == db.driving_forces[i].impact
            source == df[i].Level_of_Impact
        IN impact # Null
           => /\ 10 <= impact[1] /\ impact[1] <= 100
              /\ (source # Null /\ source[1] > 100) => impact[1] = 100
              /\ (source # Null /\ source[1] < 10) => impact[1] = 10

\* C18: a row a legacy loader stores has type 'S' and steep Technological
\* when its 'Driving Force' label is not exactly one of the five keys of
\* the table, and the mapped code with the steep of the fallback table
\* when it is; no error is raised.
C18_TypeFallback ==
    (loader \in LegacyLoaders /\ pc = "done")
    => /\ ~history.errors
       /\ Len(db.driving_forces) = Len(df)
       /\ \A i \in 1..Len(df) :
              LET label == df[i].Driving_Force
                  stored == <<db.driving_forces[i].type, db.driving_forces[i].steep>>
              IN /\ label = "Megatrends" => stored = <<"M", "Social">>
                 /\ label = "Trends" => stored = <<"T", "Technological">>
                 /\ label = "Weak Signals" => stored = <<"WS", "Social">>
                 /\ label = "Wildcards" => stored = <<"WC", "Environmental">>
                 /\ label = "Signals" => stored = <<"S", "Technological">>
                 /\ label \notin {"Megatrends", "Trends", "Weak Signals",
                                  "Wildcards", "Signals"}
                    => stored = <<"S", "Technological">>

C18_Witness ==
    /\ loader = "finish_import" /\ pc = "done"
    /\ Len(db.driving_forces) = 2
    /\ df[1].Driving_Force = "megatrends"
    /\ db.driving_forces[1].type = "S"
    /\ db.driving_forces[1].steep = "Technological"
    /\ df[2].Driving_Force = "Wildcards"
    /\ db.driving_forces[2].type = "WC"

----------------------------------------------------------------------------
(* Properties of the resume point *)

\* C19: at the start of every run of complete_import, finish_import and
\* quick_complete, every source row at an index below the computed resume
\* point is committed in the store, whatever happened in the earlier runs.
C19_ResumePointIsLowerBound ==
    (/\ loader \in {"complete_import", "finish_import", "quick_complete"}
     /\ pc = "loop" /\ attempted = <<>>)
    => \A i \in 1..Min(run.start_index, Len(df)) :
           HasId(db.driving_forces, <<"force-", df[i]>>)

\* the store holds the record of every source row
AllRowsStored ==
    \A i \in 1..Len(df) : HasId(db.driving_forces, <<"force-", df[i]>>)

\* C20: capped runs make progress to completion.  With no batch raising,
\* invoking finish_import or quick_complete again and again eventually
\* gives a store that holds all N source rows; every run that ends before
\* that has committed a new batch; every run after that writes nothing.
C20_CappedRunsComplete ==
    /\ <>AllRowsStored
    /\ [][(~AllRowsStored /\ pc' = "idle")
          => /\ pc = "loop"
             /\ MaxForceNum(db'.driving_forces) > run.start_index]_vars
    /\ [][AllRowsStored => (db' = db /\ sess' = sess)]_vars

----------------------------------------------------------------------------
(* Properties of a dry run *)

\* C21: with --dry-run, import-unified-dataset and import_signals leave
\* the committed state of every table unchanged, whatever the store held
\* before, a store with no project included.
C21_DryRunChangesNothing ==
    [][(loader \in {"import_unified_dataset", "import_signals"} /\ args.dry_run)
       => db' = db]_vars

\* C22: the resume point is the maximum numeric suffix.  A run of a loader
\* that resumes by maximum id, on a store of 'force-<n>' ids, starts at
\* the numerically largest n, also when the suffixes differ in length.
C22_ResumeAtMaxSuffix ==
    (/\ loader \in {"complete_import", "finish_import", "quick_complete"}
     /\ pc = "loop" /\ attempted = <<>>
     /\ db.driving_forces # <<>>
     /\ \A i \in 1..Len(db.driving_forces) : db.driving_forces[i].prefix = "force-")
    => /\ \A i \in 1..Len(db.driving_forces) :
              db.driving_forces[i].num <= run.start_index
       /\ \E i \in 1..Len(db.driving_forces) :
              db.driving_forces[i].num = run.start_index

----------------------------------------------------------------------------
(* Properties of a killed run *)

\* the commit period of the running loader, in batches
CommitFrequency ==
    CASE loader = "complete_import" -> complete_COMMIT_FREQUENCY
      [] loader = "quick_complete" -> quick_COMMIT_FREQUENCY
      [] OTHER -> 1

\* C23: a crash loses only uncommitted batches.  At every point of a run
\* of a batch loader the committed rows are rows of the session, at most
\* COMMIT_FREQUENCY batches are inserted and not committed, and after a
\* kill the store holds exactly the rows of the last commit.
C23_CrashLosesOnlyUncommitted ==
    [][(loader \in ResumableLoaders /\ pc = "loop")
       => /\ SubSeq(sess.driving_forces, 1, Len(db.driving_forces))
                = db.driving_forces
          /\ Len(sess.driving_forces) - Len(db.driving_forces)
                <= CommitFrequency * LoaderBatchSize
          /\ report' = "killed" => (db' = db /\ sess' = db)]_vars

\* complete_import was killed with a batch inserted after its last commit
C23_Witness ==
    /\ loader = "complete_import" /\ pc = "idle" /\ report = "killed"
    /\ ~history.errors
    /\ db.driving_forces # <<>>
    /\ sess = db
    /\ run.imported > Len(db.driving_forces)

\* C24: the batch cap bounds the work of one invocation.  One run of
\* finish_import attempts the insert of at most MAX_BATCHES batches and one
\* run of quick_complete at most its cap, whether the batches succeed or
\* raise.
C24_BatchCapBoundsRun ==
    /\ loader = "finish_import" => Len(attempted) <= finish_MAX_BATCHES
    /\ loader = "quick_complete" => Len(attempted) <= quick_BATCH_CAP


\* C25: in every run of complete_import, finish_import, quick_complete and
\* resume_correct_import, resumed or not, the cluster label read for the
\* source row at position p is the label at position p of the artifact
\* (no label where the artifact has none for p)
C25_LabelsAlignedUnderResume ==
    loader \in ResumableLoaders
    => \A i \in 1..Len(sess.driving_forces) :
          \A p \in 1..Len(df) :
             (sess.driving_forces[i].prefix = "force-"
                /\ sess.driving_forces[i].num = df[p])
             => sess.driving_forces[i].legacy_cluster
                   = LabelAt(args.cluster_labels, p - 1)

\* a resumed run has committed a row whose label differs from the label at
\* its offset among the remaining rows
C25_Witness ==
    /\ loader \in ResumableLoaders
    /\ run.start_index > 0
    /\ \E i \in 1..Len(db.driving_forces) :
          LET r == db.driving_forces[i]
          IN /\ r.num > run.start_index
             /\ r.legacy_cluster # Null
             /\ r.legacy_cluster
                   # LabelAt(args.cluster_labels, r.num - run.start_index - 1)

\* C26: records with the same numeric cluster index get the same cluster
\* id, in whichever run of the loader they were imported
C26_ClusterIdStableAcrossRuns ==
    loader \in LegacyLoaders
    => \A i, j \in 1..Len(db.driving_forces) :
          (db.driving_forces[i].legacy_cluster # Null
             /\ db.driving_forces[i].legacy_cluster
                   = db.driving_forces[j].legacy_cluster)
          => db.driving_forces[i].cluster_id = db.driving_forces[j].cluster_id

----------------------------------------------------------------------------
(* A loader invoked again and again on an empty store, one batch of one    *)
(* run raising, for a source no longer than the expected total             *)

InitRecover ==
    /\ loader \in ResumableLoaders
    /\ \E n \in 1..EXPECTED_TOTAL : df = [i \in 1..n |-> i]
    /\ db = EmptyTables({DefaultProjectRow})
    /\ sess = db
    /\ pc = "idle"
    /\ run = NewRun(0, <<>>, None)
    /\ report = "none"
    /\ history = [errors |-> FALSE, kills |-> FALSE]
    /\ attempted = <<>> /\ raised = {} /\ trace = <<>>
    /\ environ = [ORION_IMPORT_ALLOW |-> "unset",
                  ORION_SIGNALS_IMPORT_ALLOW |-> "unset",
                  DATABASE_URL |-> "url"]
    /\ args = [dry_run |-> FALSE, keep_existing |-> FALSE, file |-> "ok",
               cluster_labels |-> <<>>]
    /\ db_name = <<"d", "e", "v">>
    /\ MergeIdle

NextRecover ==
    \/ complete_import_start
    \/ complete_import_batch
    \/ ~history.errors /\ complete_import_batch_error
    \/ complete_import_finish
    \/ finish_import_start
    \/ finish_import_batch
    \/ ~history.errors /\ finish_import_batch_error
    \/ finish_import_finish
    \/ quick_resume_import_start
    \/ quick_resume_import_batch
    \/ ~history.errors /\ quick_resume_import_batch_error
    \/ quick_resume_import_finish
    \/ resume_correct_import_start
    \/ resume_correct_import_batch
    \/ ~history.errors /\ resume_correct_import_batch_error
    \/ resume_correct_import_finish

\* the loader is invoked again whenever it has returned, and a run goes on
SpecRecover == InitRecover /\ [][NextRecover]_vars /\ WF_vars(NextRecover)

\* a run has ended in which a batch raised and a later batch committed
FailedBatchBehind ==
    /\ pc = "idle" /\ history.errors
    /\ \E i \in 1..Len(df) :
          /\ ~HasId(db.driving_forces, <<"force-", df[i]>>)
          /\ df[i] < MaxForceNum(db.driving_forces)

\* C27: no source row is lost for good after a batch failure.  After a run
\* in which a batch raised and later batches committed, invoking the same
\* loader again, no batch raising, eventually gives a store that holds
\* every source row.
C27_FailedBatchRecovered == FailedBatchBehind ~> AllRowsStored

\* C28: a loader declares the import complete only when it is.  Whenever
\* finish_import, resume_correct_import or complete_import has returned
\* with 'already complete', the store holds the record of every source row.
C28_CompleteOnlyWhenComplete ==
    (/\ loader \in {"finish_import", "resume_correct_import", "complete_import"}
     /\ pc = "idle" /\ report = "already_complete")
    => AllRowsStored

\* the rows the current run has newly committed: a run of a resumable
\* loader imports rows that were not in the store when it started
NewlyCommitted ==
    {i \in 1..Len(db.driving_forces) :
        \E k \in 1..Len(run.to_import) :
           RowId(db.driving_forces[i]) = <<"force-", df[run.to_import[k]]>>}

\* C29: the reported count equals the committed count.  When a run has
\* ended, its counter of imported rows is the number of rows it newly
\* committed to the store.
C29_ReportedEqualsCommitted ==
    (/\ loader \in ResumableLoaders
     /\ pc = "idle" /\ report \in {"session_done", "capped"})
    => run.imported = Cardinality(NewlyCommitted)

\* C30: no record without a resolved default project.  Every record a
\* legacy loader has written carries the id of a project of the store, so
\* a store with no default project gets no record.
C30_RecordsHaveProject ==
    loader \in LegacyLoaders
    => \A i \in 1..Len(db.driving_forces) :
          db.driving_forces[i].prefix = "force-"
          => \E p \in db.projects : p.id = db.driving_forces[i].project_id

----------------------------------------------------------------------------
(* Properties of the matcher's output *)

\* merge_datasets has returned a merged frame
MergeSucceeded ==
    pc \in {"export_csv", "export_excel"} \/ (pc = "idle" /\ report = "success")

\* C32: matcher output.  In the result of merge_datasets row i is base row
\* i with its ID and Title unchanged; it carries the magnitude, distance,
\* color_hex and dimension of the radar row whose normalized title is the
\* normalized title of the base row, and null in all four when there is
\* no such radar row.
C32_MatcherOutput ==
    MergeSucceeded
    => /\ Len(merged_df) = Len(parquet_df)
       /\ \A i \in 1..Len(parquet_df) :
             LET key == normalize_title(parquet_df[i].Title)
                 found == {k \in 1..Len(radar_df) :
                              radar_df[k].title_normalized = key}
             IN /\ merged_df[i].ID = parquet_df[i].ID
                /\ merged_df[i].Title = parquet_df[i].Title
                /\ found = {} =>
                      /\ merged_df[i].magnitude = Null
                      /\ merged_df[i].distance = Null
                      /\ merged_df[i].color_hex = Null
                      /\ merged_df[i].dimension = Null
                /\ \A k \in found :
                      /\ merged_df[i].magnitude = radar_df[k].magnitude
                      /\ merged_df[i].distance = radar_df[k].distance
                      /\ merged_df[i].color_hex = radar_df[k].color_hex
                      /\ merged_df[i].dimension = radar_df[k].dimension

\* a base row written " X" took the fields of the radar row written "X" or
\* " x", and another base row found no radar row
C32_Witness ==
    /\ MergeSucceeded /\ Len(merged_df) = 2
    /\ \E i, j \in 1..2 :
          /\ parquet_df[i].Title = << <<" ", "X">> >>
          /\ merged_df[i].distance # Null
          /\ \E k \in 1..Len(radar_df) :
                /\ radar_df[k].title_normalized = <<"x">>
                /\ radar_df[k].driving_force # parquet_df[i].Title
          /\ merged_df[j].distance = Null /\ merged_df[j].color_hex = Null

\* base rows whose normalized title is the key of a radar row
MatchedBaseRows ==
    {i \in 1..Len(parquet_df) :
        \E k \in 1..Len(radar_df) :
           radar_df[k].title_normalized = normalize_title(parquet_df[i].Title)}

\* C33: the match counts are the true match counts.  The count of records
\* with radar data that merge_datasets reports is the number of base rows
\* whose key is a radar key, the count without radar data is the number of
\* the other base rows, and the two sum to the base row count.
C33_MatchCountsTrue ==
    MergeSucceeded
    => /\ run.matched_count = Cardinality(MatchedBaseRows)
       /\ run.unmatched_count = Len(parquet_df) - Cardinality(MatchedBaseRows)
       /\ run.matched_count + run.unmatched_count = Len(parquet_df)

----------------------------------------------------------------------------
(* The deduplicator on reordered input *)

\* the orderings of n rows
Orderings(n) ==
    {f \in [1..n -> 1..n] : \A i, j \in 1..n : i # j => f[i] # f[j]}

\* keys of a deduplicated frame with the radar fields of each
KeyedFields(rows) ==
    {[title_normalized |-> rows[k].title_normalized,
      dimension |-> rows[k].dimension, magnitude |-> rows[k].magnitude,
      distance |-> rows[k].distance, color_hex |-> rows[k].color_hex] :
        k \in 1..Len(rows)}

\* C39: deduplication does not depend on the input order.  Every ordering
\* of the rows of the radar file gives the keys and the field values per
\* key that load_radar_csv returned for the file.
C39_DedupOrderIndependent ==
    (loader = "create_unified_dataset" /\ pc \notin {"load_parquet", "load_radar"})
    => \A f \in Orderings(Len(radar_csv)) :
          KeyedFields(DeduplicateRadar(CleanRadar(
              [i \in 1..Len(radar_csv) |-> radar_csv[f[i]]])))
             = KeyedFields(radar_df)

----------------------------------------------------------------------------
(* Frame of the cluster label resolver *)

\* the id-to-index map of the artifact the run was given
ArtifactIndex ==
    ForceToCluster(FeaturesGet(args.features, "id"),
                   FeaturesGet(args.features, "cluster_labels"))

\* C34: the resolver leaves underivable clusters alone.  A step of
\* fix_cluster_labels.main changes a stored cluster row only if the row has
\* a first member, the artifact maps that member to an index and the label
\* of the index differs from the stored label; it changes the label of
\* such a row to that label and nothing else, and adds or drops no row.
C34_UnderivableClustersKept ==
    [][loader = "fix_cluster_labels"
       => /\ Len(db'.clusters) = Len(db.clusters)
          /\ \A k \in 1..Len(db.clusters) :
                db'.clusters[k] # db.clusters[k]
                => LET c == db.clusters[k]
                   IN /\ c.force_ids # <<>>
                      /\ c.force_ids[1] \in DOMAIN ArtifactIndex
                      /\ NamesGet(fix_CLUSTER_NAMES, ArtifactIndex[c.force_ids[1]])
                            # c.label
                      /\ db'.clusters[k] =
                            [c EXCEPT !.label =
                                NamesGet(fix_CLUSTER_NAMES,
                                         ArtifactIndex[c.force_ids[1]])]]_vars

\* a run has relabelled the cluster of force-2 and kept the label of the
\* cluster whose first member, force-3, the artifact does not know
C34_Witness ==
    /\ loader = "fix_cluster_labels" /\ pc = "idle" /\ report = "True"
    /\ Len(db.clusters) = 2
    /\ db.clusters[1].force_ids = << <<"force-", 3>> >>
    /\ <<"force-", 3>> \notin DOMAIN ArtifactIndex
    /\ db.clusters[1].label = FallbackLabel(99)
    /\ db.clusters[2].label # <<"Old">>

----------------------------------------------------------------------------
(* The final verification of fix_correct_import.main and                   *)
(* resume_correct_import.main, run on the store the import loop left.  A   *)
(* stored row carries its type, None for a row with no type.  The expected *)
(* counts are scaled down with the expected total, which is their sum.     *)

ForceTypes == {"S", "T", "WS", "WC", "M"}

\* expected = {'S': 26883, 'T': 2185, 'WS': 458, 'WC': 203, 'M': 20}
expected == [t \in ForceTypes |-> IF t = "S" THEN 3 ELSE 1]

\* SELECT COUNT(*) FROM driving_forces
final_count(table) == Len(table)

\* dict(SELECT type, COUNT(*) FROM driving_forces GROUP BY type)
final_distribution(table) ==
    [t \in {table[i].type : i \in 1..Len(table)} |->
        Cardinality({i \in 1..Len(table) : table[i].type = t})]

\* actual.get(force_type, 0)
ActualCount(actual, force_type) ==
    IF force_type \in DOMAIN actual THEN actual[force_type] ELSE 0

all_correct(actual) ==
    \A t \in ForceTypes : ActualCount(actual, t) = expected[t]

\* fix_correct_import.main, "Check against expected"
fix_verdict(table) ==
    IF all_correct(final_distribution(table)) /\ final_count(table) = EXPECTED_TOTAL
    THEN "SUCCESS" ELSE "Issue"

\* resume_correct_import.main, "Check against expected if complete"
resume_verdict(table) ==
    IF final_count(table) >= EXPECTED_TOTAL
    THEN (IF all_correct(final_distribution(table)) THEN "SUCCESS" ELSE "Issue")
    ELSE "run again"

\* fix_correct_import.main from "Final verification" on
fix_correct_import_verify ==
    /\ loader = "fix_correct_import" /\ pc = "verify"
    /\ report' = fix_verdict(sess.driving_forces)
    /\ pc' = "idle"
    /\ UNCHANGED <<loader, df, history, db, sess, run, attempted, raised, trace,
                   environ, args, db_name, mergeVars>>

\* resume_correct_import.main from "Final status" on
resume_correct_import_verify ==
    /\ loader = "resume_correct_import" /\ pc = "verify"
    /\ report' = resume_verdict(sess.driving_forces)
    /\ pc' = "idle"
    /\ UNCHANGED <<loader, df, history, db, sess, run, attempted, raised, trace,
                   environ, args, db_name, mergeVars>>

\* a table of counts[t] rows of each type t
RECURSIVE TypedRows(_, _)
TypedRows(counts, types) ==
    IF types = {} THEN <<>>
    ELSE LET t == CHOOSE x \in types : TRUE
         IN [i \in 1..counts[t] |->
                [prefix |-> IF t = None THEN "unified_" ELSE "force-", type |-> t]]
            \o TypedRows(counts, types \ {t})

\* the stores the loop can leave: up to one row more than expected of each
\* type and, for resume_correct_import, which deletes nothing, a row with
\* no type stored by another importer
InitVerify ==
    /\ loader \in {"fix_correct_import", "resume_correct_import"}
    /\ df = <<>>
    /\ \E counts \in [ForceTypes \cup {None} -> 0..(expected["S"] + 1)] :
          /\ \A t \in ForceTypes : counts[t] <= expected[t] + 1
          /\ counts[None] <= 1
          /\ counts[None] = 1 => loader = "resume_correct_import"
          /\ db = [EmptyTables({DefaultProjectRow}) EXCEPT
                      !.driving_forces = TypedRows(counts, ForceTypes \cup {None})]
    /\ sess = db
    /\ pc = "verify"
    /\ run = NewRun(0, <<>>, None)
    /\ report = "running"
    /\ history = [errors |-> FALSE, kills |-> FALSE]
    /\ attempted = <<>> /\ raised = {} /\ trace = <<>>
    /\ environ = [ORION_IMPORT_ALLOW |-> "unset",
                  ORION_SIGNALS_IMPORT_ALLOW |-> "unset",
                  DATABASE_URL |-> "url"]
    /\ args = [dry_run |-> FALSE, keep_existing |-> FALSE, file |-> "ok",
               cluster_labels |-> <<>>]
    /\ db_name = <<"d", "e", "v">>
    /\ MergeIdle

NextVerify ==
    \/ fix_correct_import_verify
    \/ resume_correct_import_verify

SpecVerify == InitVerify /\ [][NextVerify]_vars

\* the stored total and the stored count of each type are the expected ones
StoreAsExpected ==
    /\ Len(db.driving_forces) = EXPECTED_TOTAL
    /\ \A t \in ForceTypes :
          Cardinality({i \in 1..Len(db.driving_forces) :
                          db.driving_forces[i].type = t}) = expected[t]

----------------------------------------------------------------------------
(* Atomicity of the clear-and-reload import *)

\* C36: clear-and-reload is all or nothing.  A run of
\* import-unified-dataset.main without --keep-existing that ends in an
\* error has committed none of the statements of clear_existing_data, so
\* the store is as it was before the run; a run that ends in success
\* leaves the store holding the complete new dataset and nothing else.
C36_ClearAndReloadAtomic ==
    (loader = "import_unified_dataset" /\ ~args.keep_existing /\ ~args.dry_run
       /\ pc = "idle")
    => /\ report = "exit 1" => \A k \in 1..Len(trace) : trace[k] # "COMMIT"
       /\ report = "success"
             => db.driving_forces = UnifiedRecords(UnifiedProject.id)

----------------------------------------------------------------------------
(* import-radar-data.py and complete-radar-import.py                       *)
(* csv.DictReader gives every cell of the radar file as text, the empty    *)
(* text for an empty cell.  A stored driving force carries its id, its     *)
(* project, its title and the radar fields; updated_at is 0 until a run    *)
(* sets it to CURRENT_TIMESTAMP, written 1.  No statement of the database  *)
(* fails.                                                                  *)

\* row.get('driving_force', '') of a cell of the file
CsvText(cell) == IF cell = Null THEN <<>> ELSE cell[1]

\* float(text) raises ValueError
FloatRaises(raw) == raw.kind = "junk"

\* complete-radar-import.normalize_title
complete_normalize_title(title) == Strip(title)

\* the row has a driving_force that is not blank
HasDrivingForce(row) == Strip(CsvText(row.driving_force)) # <<>>

\* the dict complete-radar-import.load_csv_data appends for a row: one
\* try block parses magnitude and distance, its except clears both
complete_radar_record(row) ==
    LET raises == FloatRaises(row.magnitude) \/ FloatRaises(row.distance)
    IN [title |-> complete_normalize_title(Strip(CsvText(row.driving_force))),
        dimension |-> row.dimension,
        magnitude |-> IF raises THEN Null ELSE to_numeric(row.magnitude),
        distance |-> IF raises THEN Null ELSE to_numeric(row.distance),
        color_hex |-> row.color_hex]

load_csv_data ==
    /\ loader = "complete_radar_import" /\ pc = "read"
    /\ LET rows == SelectSeq(radar_csv, HasDrivingForce)
       IN radar_df' = [i \in 1..Len(rows) |-> complete_radar_record(rows[i])]
    /\ pc' = "update"
    /\ UNCHANGED <<loaderVars_but_pc, parquet_df, radar_csv, merged_df, exported>>

\* UPDATE driving_forces SET ... WHERE title = %s
UpdateWhereTitle(forces, record) ==
    [i \in 1..Len(forces) |->
        IF forces[i].title = record.title
        THEN [forces[i] EXCEPT !.dimension = record.dimension,
                               !.magnitude = record.magnitude,
                               !.distance = record.distance,
                               !.color_hex = record.color_hex,
                               !.updated_at = 1]
        ELSE forces[i]]

\* cur.executemany(update_query, update_data)
RECURSIVE executemany(_, _)
executemany(forces, update_data) ==
    IF update_data = <<>> THEN forces
    ELSE executemany(UpdateWhereTitle(forces, Head(update_data)),
                     Tail(update_data))

\* complete-radar-import.update_radar_data
complete_update_radar_data ==
    /\ loader = "complete_radar_import" /\ pc = "update"
    /\ sess' = [sess EXCEPT !.driving_forces = executemany(@, radar_df)]
    /\ db' = Commit(sess')
    /\ pc' = "verify"
    /\ UNCHANGED <<loader, df, history, run, report, attempted, raised,
                   trace, environ, args, db_name, mergeVars>>

\* complete-radar-import.verify_import, and the end of main
verify_import ==
    /\ loader = "complete_radar_import" /\ pc = "verify"
    /\ pc' = "idle" /\ report' = "completed"
    /\ UNCHANGED <<loader, df, history, db, sess, run, attempted, raised,
                   trace, environ, args, db_name, mergeVars>>

\* the dict import-radar-data.read_csv_radar_data appends for a row; the
\* dimension is the text of the cell, '' for an empty one
radar_csv_row(row) ==
    [dimension |-> IF row.dimension = Null THEN <<"">> ELSE row.dimension,
     driving_force |-> Strip(CsvText(row.driving_force)),
     magnitude |-> to_numeric(row.magnitude),
     distance |-> to_numeric(row.distance),
     color_hex |-> row.color_hex]

\* import-radar-data.read_csv_radar_data and "Step 1" of main: float() is
\* not guarded, its ValueError ends the script
read_csv_radar_data ==
    /\ loader = "import_radar_data" /\ pc = "read"
    /\ LET rows == SelectSeq(radar_csv, HasDrivingForce)
       IN IF \E i \in 1..Len(rows) :
                FloatRaises(rows[i].magnitude) \/ FloatRaises(rows[i].distance)
          THEN /\ pc' = "idle" /\ report' = "ValueError"
               /\ UNCHANGED radar_df
          ELSE /\ radar_df' = [i \in 1..Len(rows) |-> radar_csv_row(rows[i])]
               /\ IF rows = <<>>
                  THEN pc' = "idle" /\ report' = "no csv data"
                  ELSE pc' = "fetch" /\ UNCHANGED report
    /\ UNCHANGED <<loader, df, history, db, sess, run, attempted, raised,
                   trace, environ, args, db_name, parquet_df, radar_csv,
                   merged_df, exported>>

\* SELECT id FROM projects WHERE is_default = true LIMIT 1
DefaultProjectIds == {p.id : p \in {q \in db.projects : q.is_default}}

\* ORDER BY title: rows of equal title come in any order
OrderedByTitle(rows) ==
    \A i, j \in 1..Len(rows) :
        i < j => ~TextLess(Lower(rows[j].title), Lower(rows[i].title))

\* import-radar-data.get_orion_database_records and "Step 2" of main
get_orion_database_records ==
    /\ loader = "import_radar_data" /\ pc = "fetch"
    /\ LET rows == SelectSeq(db.driving_forces,
                             LAMBDA r : r.project_id \in DefaultProjectIds)
       IN \E order \in Orderings(Len(rows)) :
             LET records == [i \in 1..Len(rows) |-> rows[order[i]]]
             IN /\ OrderedByTitle(records)
                /\ run' = [db_records |-> records, matches |-> <<>>]
                /\ IF records = <<>>
                   THEN pc' = "idle" /\ report' = "no database records"
                   ELSE pc' = "match" /\ UNCHANGED report
    /\ UNCHANGED <<loader, df, history, db, sess, attempted, raised, trace,
                   environ, args, db_name, mergeVars>>

\* rec['title'].lower().strip()
LowerStrip(title) == Strip(Lower(title))

\* db_by_title[key]: the last of the records with the key
db_by_title(db_records, key) ==
    db_records[CHOOSE i \in 1..Len(db_records) :
                  /\ LowerStrip(db_records[i].title) = key
                  /\ \A j \in (i + 1)..Len(db_records) :
                        LowerStrip(db_records[j].title) # key]

\* csv_title in db_by_title
InDbByTitle(db_records, key) ==
    \E i \in 1..Len(db_records) : LowerStrip(db_records[i].title) = key

\* the list matches of import-radar-data.find_matches
Matches(csv_data, db_records) ==
    LET matched == SelectSeq(csv_data,
                       LAMBDA c : InDbByTitle(db_records,
                                              LowerStrip(c.driving_force)))
    IN [i \in 1..Len(matched) |->
           [csv_row |-> matched[i],
            db_record |-> db_by_title(db_records,
                                      LowerStrip(matched[i].driving_force))]]

\* import-radar-data.find_matches and "Step 3" of main
find_matches ==
    /\ loader = "import_radar_data" /\ pc = "match"
    /\ run' = [run EXCEPT !.matches = Matches(radar_df, run.db_records)]
    /\ IF run'.matches = <<>>
       THEN pc' = "idle" /\ report' = "no matches"
       ELSE pc' = "update" /\ UNCHANGED report
    /\ UNCHANGED <<loader, df, history, db, sess, attempted, raised, trace,
                   environ, args, db_name, mergeVars>>

\* any([dimension, magnitude, distance, color_hex]): '' and 0.0 are false
AnyRadarValue(csv_row) ==
    \/ csv_row.dimension # Null /\ csv_row.dimension # <<"">>
    \/ csv_row.magnitude # Null /\ csv_row.magnitude # <<0>>
    \/ csv_row.distance # Null /\ csv_row.distance # <<0>>
    \/ csv_row.color_hex # Null

\* UPDATE driving_forces SET ... WHERE id = %s
UpdateWhereId(forces, csv_row, id) ==
    [i \in 1..Len(forces) |->
        IF forces[i].id = id
        THEN [forces[i] EXCEPT !.dimension = csv_row.dimension,
                               !.magnitude = csv_row.magnitude,
                               !.distance = csv_row.distance,
                               !.color_hex = csv_row.color_hex,
                               !.updated_at = 1]
        ELSE forces[i]]

\* the loop of import-radar-data.update_radar_data over the matches
RECURSIVE UpdateMatches(_, _)
UpdateMatches(forces, matches) ==
    IF matches = <<>> THEN forces
    ELSE LET match == Head(matches)
         IN UpdateMatches(IF AnyRadarValue(match.csv_row)
                          THEN UpdateWhereId(forces, match.csv_row,
                                             match.db_record.id)
                          ELSE forces,
                          Tail(matches))

\* import-radar-data.update_radar_data and the end of main
update_radar_data ==
    /\ loader = "import_radar_data" /\ pc = "update"
    /\ sess' = [sess EXCEPT !.driving_forces = UpdateMatches(@, run.matches)]
    /\ db' = Commit(sess')
    /\ pc' = "idle" /\ report' = "completed"
    /\ UNCHANGED <<loader, df, history, run, attempted, raised, trace,
                   environ, args, db_name, mergeVars>>

MaxRadarFileRows == 2    \* rows of the radar file an importer reads
MaxStoredForces == 2     \* driving forces stored before the run

RadarLine(title, dimension, magnitude, distance, color_hex) ==
    [driving_force |-> title, dimension |-> dimension,
     magnitude |-> magnitude, distance |-> distance, color_hex |-> color_hex]

\* lines of the title "X" with every radar field, with a smaller magnitude
\* only, with no radar field, with a magnitude or a distance that is no
\* number; a line of the same title in another spelling, a line of the
\* title "Y" with magnitude 0 only, a line with a blank title
RadarLines ==
    {RadarLine(<< <<"X">> >>, <<"tech">>, Number(3), Number(2), <<"c1">>),
     RadarLine(<< <<"X">> >>, Null, Number(1), Empty, Null),
     RadarLine(<< <<"X">> >>, Null, Empty, Empty, Null),
     RadarLine(<< <<"X">> >>, <<"tech">>, Junk, Number(2), <<"c1">>),
     RadarLine(<< <<"X">> >>, <<"tech">>, Number(3), Junk, <<"c1">>),
     RadarLine(<< <<" ", "x">> >>, <<"social">>, Number(5), Number(4), <<"c2">>),
     RadarLine(<< <<"Y">> >>, Null, Number(0), Empty, Null),
     RadarLine(<< <<" ">> >>, <<"tech">>, Number(1), Number(1), <<"c1">>)}

StoredForce(id, v) ==
    [id |-> id, project_id |-> v.project_id, title |-> v.title, type |-> "T",
     dimension |-> IF v.radar THEN <<"old">> ELSE Null,
     magnitude |-> IF v.radar THEN <<9>> ELSE Null,
     distance |-> IF v.radar THEN <<9>> ELSE Null,
     color_hex |-> IF v.radar THEN <<"c0">> ELSE Null,
     updated_at |-> 0]

\* forces titled "X" or "Y", of the default project or of another one,
\* with the radar fields of an earlier run or with none
StoredVariants ==
    [title : {<<"X">>, <<"Y">>}, project_id : {"p1", "p2"}, radar : BOOLEAN]

\* main of either importer on a radar file of up to MaxRadarFileRows lines
\* and a store of up to MaxStoredForces driving forces
InitRadar ==
    /\ loader \in {"import_radar_data", "complete_radar_import"}
    /\ pc = "read"
    /\ \E n \in 1..MaxRadarFileRows :
          \E f \in [1..n -> RadarLines] : radar_csv = f
    /\ \E k \in 0..MaxStoredForces :
          \E v \in [1..k -> StoredVariants] :
             db = [EmptyTables({DefaultProjectRow, SignalsProjectRow}) EXCEPT
                      !.driving_forces = [i \in 1..k |-> StoredForce(i, v[i])]]
    /\ sess = db
    /\ df = <<>>
    /\ run = [db_records |-> <<>>, matches |-> <<>>]
    /\ report = "none"
    /\ history = [errors |-> FALSE, kills |-> FALSE]
    /\ attempted = <<>> /\ raised = {} /\ trace = <<>>
    /\ environ = [ORION_IMPORT_ALLOW |-> "unset",
                  ORION_SIGNALS_IMPORT_ALLOW |-> "unset",
                  DATABASE_URL |-> "url"]
    /\ args = [dry_run |-> FALSE, keep_existing |-> FALSE, file |-> "ok",
               cluster_labels |-> <<>>]
    /\ db_name = <<"d", "e", "v">>
    /\ parquet_df = <<>> /\ radar_df = <<>>
    /\ merged_df = <<>> /\ exported = <<>>

NextRadar ==
    \/ load_csv_data
    \/ complete_update_radar_data
    \/ verify_import
    \/ read_csv_radar_data
    \/ get_orion_database_records
    \/ find_matches
    \/ update_radar_data

SpecRadar == InitRadar /\ [][NextRadar]_vars

----------------------------------------------------------------------------
(* Properties of the radar importers *)

RadarImporters == {"import_radar_data", "complete_radar_import"}

\* the lines of the radar file that carry a driving_force
TitledLines == SelectSeq(radar_csv, HasDrivingForce)

\* C31: a parse failure is per field.  Once an importer has read the radar
\* file it holds one record for every line with a driving_force, and in
\* each record the magnitude and the distance are each the number of their
\* own cell, null exactly when that cell is empty or is no number; the
\* colour of the line is kept.  No line and no other field is lost to a
\* cell that does not parse.
C31_ParseFailurePerField ==
    (loader \in RadarImporters /\ pc # "read")
    => /\ Len(radar_df) = Len(TitledLines)
       /\ \A i \in 1..Len(radar_df) :
             /\ radar_df[i].magnitude = to_numeric(TitledLines[i].magnitude)
             /\ radar_df[i].distance = to_numeric(TitledLines[i].distance)
             /\ radar_df[i].color_hex = TitledLines[i].color_hex

\* the rows create-unified-dataset keeps of the radar file
KeptRows == DeduplicateRadar(CleanRadar(radar_csv))

\* a radar text field with '' read as no value
Blank(cell) == IF cell = <<"">> THEN Null ELSE cell

\* every magnitude and distance of the file is empty or a number
EveryCellParses ==
    \A i \in 1..Len(radar_csv) :
        ~FloatRaises(radar_csv[i].magnitude) /\ ~FloatRaises(radar_csv[i].distance)

\* the file has several lines for one title
SomeTitleRepeated == HasDuplicates(CleanRadar(radar_csv))

\* C37: the radar importers agree with the deduplicator.  When a run of
\* import-radar-data or complete-radar-import on a file with several lines
\* for one title, all cells of which parse, has ended, every record it
\* updated holds the dimension, magnitude, distance and colour of the row
\* that create-unified-dataset keeps for the record's title: the row the
\* priority order (dimension present, magnitude present, larger
\* magnitude) ranks first, whatever the order of the lines in the file.
C37_ImportersAgreeWithDedup ==
    (loader \in RadarImporters /\ pc = "idle" /\ report = "completed"
       /\ EveryCellParses /\ SomeTitleRepeated)
    => \A i \in 1..Len(db.driving_forces) :
          LET force == db.driving_forces[i]
          IN force.updated_at = 1
             => \E k \in 1..Len(KeptRows) :
                   /\ KeptRows[k].title_normalized
                         = normalize_title(<<force.title>>)
                   /\ Blank(force.dimension) = KeptRows[k].dimension
                   /\ force.magnitude = KeptRows[k].magnitude
                   /\ force.distance = KeptRows[k].distance
                   /\ force.color_hex = KeptRows[k].color_hex

\* the store after the statement of the k-th radar row alone
AfterRowAlone(k) ==
    IF loader = "complete_radar_import"
    THEN UpdateWhereTitle(db.driving_forces, radar_df[k])
    ELSE UpdateMatches(db.driving_forces, <<run.matches[k]>>)

\* the radar rows the update runs a statement for
UpdateRows ==
    IF loader = "complete_radar_import"
    THEN 1..Len(radar_df) ELSE 1..Len(run.matches)

\* the stored records the statement of the k-th radar row changes
ChangedByRow(k) ==
    {i \in 1..Len(db.driving_forces) :
        AfterRowAlone(k)[i] # db.driving_forces[i]}

\* some line of the file has the title of the force, spelling aside
TitleInFile(force) ==
    \E k \in 1..Len(TitledLines) :
        normalize_title(TitledLines[k].driving_force)
           = normalize_title(<<force.title>>)

\* a radar value the record held is not replaced by null
RadarValuesKept(old, new) ==
    /\ old.dimension # Null => new.dimension # Null
    /\ old.magnitude # Null => new.magnitude # Null
    /\ old.distance # Null => new.distance # Null
    /\ old.color_hex # Null => new.color_hex # Null

\* C38: the radar update touches only matched records and only radar
\* fields.  The update step of either importer keeps the number of stored
\* records and the id, project, title and type of each; a record whose
\* title is the title of no line of the file is unchanged; the statement
\* of one radar row changes at most one stored record; and a dimension,
\* magnitude, distance or colour already stored is never replaced by null.
C38_RadarUpdateFrame ==
    [][(loader \in RadarImporters /\ pc = "update")
       => /\ Len(db'.driving_forces) = Len(db.driving_forces)
          /\ \A i \in 1..Len(db.driving_forces) :
                LET old == db.driving_forces[i]
                    new == db'.driving_forces[i]
                IN /\ new.id = old.id /\ new.project_id = old.project_id
                   /\ new.title = old.title /\ new.type = old.type
                   /\ ~TitleInFile(old) => new = old
                   /\ RadarValuesKept(old, new)
          /\ \A k \in UpdateRows : Cardinality(ChangedByRow(k)) <= 1]_vars

====
